---- MODULE Spec2Model ----
(***************************************************************************)
(* Verification model of the bitt trading core.                            *)
(*                                                                         *)
(*   Part I  - backtest Portfolio ledger  (src/src/backtest/portfolio.py)  *)
(*   Part II - live OrderManager          (src/src/core/order_manager.py,  *)
(*                                         src/src/core/order_types.py)    *)
(*   Part III - BacktestEngine            (src/src/backtest/engine.py,     *)
(*                                         src/src/backtest/events.py)     *)
(*   Part IV - IndicatorCache             (src/src/core/indicators.py)     *)
(*   Part V  - SignalGenerator            (src/src/core/signals.py,        *)
(*                                         src/src/core/parameters.py)     *)
(*                                                                         *)
(* Decimal amounts (prices, cash, PnL) are fixed-point integers counted in *)
(* units of 1/DecUnit; quantities are whole units.  Sums, differences and  *)
(* products of such values are exact, as they are for Python Decimals of   *)
(* this size; a Decimal division is rounded half-even to the last kept     *)
(* digit, as the Decimal context rounds it.                                *)
(***************************************************************************)
EXTENDS Integers, Sequences, FiniteSets, TLC

----------------------------------------------------------------------------
(* Bounds of the model *)

\* fractional decimal digits kept by a Decimal division
DecDigits == 2
\* fills applied to one portfolio
MaxFills == 3
\* largest fill quantity
MaxQty == 2
\* equity samples taken
MaxSamples == 1
\* initial capital handed to Portfolio.__init__, in currency units
InitialCapital == 10000
\* submit_order calls
MaxOrders == 3
\* max_concurrent_orders handed to OrderManager.__init__
MaxConcurrentOrders == 2
\* worker threads ever started (start() calls)
MaxThreads == 2
\* readings the clock advances through
MaxClock == 1
\* registered order-update observers
MaxObservers == 2
\* cancel_order calls
MaxCancels == 2
\* initial_capital handed to BacktestEngine.__init__, in hundredths of a
\* currency unit
EngineCapital == 4010
\* distinct candle timestamps of a backtest run
MaxTimestamps == 2
\* submit_signal / submit_order calls a strategy callback makes per timestamp
MaxSubmits == 2
\* IndicatorCache(max_size)
max_size == 2
\* threads calling get_or_compute
MaxCallers == 2
\* get_or_compute calls
MaxCacheCalls == 4
\* distinct cache keys (symbol, indicator, period, newest-candle timestamp)
MaxKeys == 3
\* open positions of the portfolio handed to RiskManager.assess
MaxOpenPositions == 5
\* StrategyParameters objects alive at once
MaxObjects == 3
\* calls of the StrategyParameterStore and of StrategyEngine.evaluate
MaxStrategyCalls == 2
\* trades handed to _create_trade_pairs
MaxTrades == 3
\* candles of a CandleSeries
MaxCandles == 4
\* events on the queue when process_events is called
MaxQueued == 3
\* the largest balance of a coin at the venue
MaxBalance == 1

RECURSIVE Pow10(_)
Pow10(n) == IF n = 0 THEN 1 ELSE 10 * Pow10(n - 1)

DecUnit == Pow10(DecDigits)

\* a whole amount as a fixed-point Decimal
Dec(n) == n * DecUnit

Symbols == {"BTC_KRW", "ETH_KRW"}
Sides == {"buy", "sell"}
\* fill and mark prices, in currency units
Prices == {100, 110}
\* commissions charged on a fill, in currency units
Commissions == {0, 1}
FillQtys == 1..MaxQty
\* fill quantities with the empty fill
NetQtys == 0..MaxQty

Abs(x) == IF x < 0 THEN -x ELSE x
Min(a, b) == IF a <= b THEN a ELSE b
Max(a, b) == IF a >= b THEN a ELSE b

\* n / d rounded half-even to an integer (d > 0): Decimal's ROUND_HALF_EVEN
RoundHalfEven(n, d) ==
    LET q == n \div d
        r == n % d
    IN  IF 2 * r < d THEN q
        ELSE IF 2 * r > d THEN q + 1
        ELSE IF q % 2 = 0 THEN q ELSE q + 1

----------------------------------------------------------------------------
(* State *)

VARIABLES
    cash,               \* Portfolio.cash
    positions,          \* Portfolio.positions : symbol -> Position
    trades,             \* Portfolio.trades (one Trade per fill, in order)
    equity_curve,       \* Portfolio.equity_curve (sampled equities)
    drawdown_curve,     \* Portfolio.drawdown_curve
    total_commission    \* Portfolio.total_commission

pvars == <<cash, positions, trades, equity_curve, drawdown_curve, total_commission>>

VARIABLES
    running,                 \* OrderManager._running
    order_queue,             \* OrderManager._order_queue: the heap of the PriorityQueue
    pending_orders,          \* OrderManager._pending_orders : order_id -> OrderResult
    active_orders,           \* OrderManager._active_orders
    order_history,           \* OrderManager._order_history
    order_update_callbacks,  \* number of registered order-update callbacks
    worker_thread,           \* OrderManager._worker_thread (0: none yet)
    worker_pc,               \* where each worker thread stands in _worker_loop
    worker_order,            \* the QueuedOrder a worker has taken from the queue
    stopping,                \* a caller is inside stop(), joining the worker
    now,                     \* the reading of datetime.now()
    submitted,               \* submit_order calls made so far
    venue,                   \* what the venue answers to get_accounts/get_ticker
    notified,                \* <<observer, order_id, status>>: callbacks invoked so far
    last_cancel,             \* the last cancel_order call and what it returned
    oplog                    \* <<event, client_order_id>>: what the logger recorded

ovars == <<running, order_queue, pending_orders, active_orders, order_history,
           order_update_callbacks, worker_thread, worker_pc, worker_order, stopping,
           now, submitted, venue, notified, last_cancel, oplog>>

VARIABLES
    events,          \* BacktestEngine.events: the FIFO Queue of events
    current_time,    \* BacktestEngine.current_time (0: None)
    current_data,    \* BacktestEngine.current_data : symbol -> close of its last candle
    engine_pc,       \* where run() stands
    processed        \* the events the event callbacks were called with, in order

evars == <<events, current_time, current_data, engine_pc, processed>>

VARIABLES
    store,           \* IndicatorCache._store: the OrderedDict, oldest entry first
    lock,            \* IndicatorCache._lock: the thread holding it, 0 when free
    cache_pc,        \* thread -> where it stands in get_or_compute
    cache_key,       \* thread -> the key of its call
    cache_call,      \* thread -> the candles and the compute callable of its call
    cache_return,    \* thread -> what its call returned, and whether it computed
    cache_calls,     \* get_or_compute calls made so far
    uses,            \* hits and inserts so far
    usage            \* key -> what the callers observed of it since it was cached

cvars == <<store, lock, cache_pc, cache_key, cache_call, cache_return, cache_calls,
           uses, usage>>

VARIABLES
    signal_input,    \* the arguments of _evaluate_buy / _evaluate_sell
    decision         \* the SignalDecision returned

svars == <<signal_input, decision>>

VARIABLES
    risk_calls,      \* the assess calls made: the arguments and the RiskAssessment
    pair_calls,      \* the _create_trade_pairs calls made: the trades and the pairs
    series           \* CandleSeries._candles

VARIABLES
    param_objects,   \* the StrategyParameters objects alive, by reference
    param_cache,     \* StrategyParameterStore._cache: a reference, 0 for None
    cache_fresh,     \* now < StrategyParameterStore._cache_expire_at
    config_record,   \* the parameters stored under PARAMETER_CONFIG_KEY
    risk_parameters, \* RiskManager._parameters: a reference
    signal_rows,     \* the strategy signals stored, by signal type
    strategy_log     \* the calls of the store and of evaluate, with what they returned

tvars == <<param_objects, param_cache, cache_fresh, config_record, risk_parameters,
           signal_rows, strategy_log>>

VARIABLES
    live_positions,            \* OrderManager._positions: symbol -> Position
    exchange,                  \* the balances the venue holds, by currency
    sync_pc,                   \* thread -> where it stands in _sync_positions
    sync_frame,                \* thread -> the locals of its _sync_positions
    position_update_callbacks  \* the number of position observers registered

zvars == <<live_positions, exchange, sync_pc, sync_frame, position_update_callbacks>>

\* the state of the RiskManager, the analyzer, the CandleSeries, the
\* StrategyEngine and the position sync
wvars == <<risk_calls, pair_calls, series, tvars, zvars>>

\* the state outside the Portfolio, the OrderManager and the BacktestEngine
yvars == <<cvars, svars, wvars>>

\* the state outside the Portfolio and the OrderManager
xvars == <<evars, yvars>>

vars == <<pvars, ovars, xvars>>

----------------------------------------------------------------------------
(* Part I: Portfolio *)

\* Position(symbol=symbol): a fresh, flat position
NewPosition ==
    [quantity |-> 0, average_price |-> 0, realized_pnl |-> 0,
     unrealized_pnl |-> 0, market_price |-> 0]

\* Position.market_value
market_value(p) == p.quantity * p.market_price

\* total_cost / new quantity of an extended position (0 when it is flat)
WeightedAverage_FlatAtPrice(oldQty, oldAvg, qty, price) ==
    IF Abs(oldQty) + qty = 0 THEN price
    ELSE RoundHalfEven(Abs(oldQty) * oldAvg + qty * price, Abs(oldQty) + qty)

WeightedAverage_FillPrice(oldQty, oldAvg, qty, price) == price

WeightedAverage(oldQty, oldAvg, qty, price) ==
    IF Abs(oldQty) + qty = 0 THEN 0
    ELSE RoundHalfEven(Abs(oldQty) * oldAvg + qty * price, Abs(oldQty) + qty)

\* PnL realized by closing closedQty units of a long at price
RealizedLong_NoCommission(avg, price, closedQty, commission) ==
    (price - avg) * closedQty

RealizedLong(avg, price, closedQty, commission) ==
    (price - avg) * closedQty - commission

\* PnL realized by covering closedQty units of a short at price
RealizedShort(avg, price, closedQty, commission) ==
    (avg - price) * closedQty - commission

\* Portfolio._update_position
UpdatePosition(p, side, quantity, price, commission) ==
    IF side = "buy" THEN
        IF p.quantity >= 0 THEN
            [p EXCEPT !.quantity = p.quantity + quantity,
                      !.average_price =
                          WeightedAverage(p.quantity, p.average_price, quantity, price)]
        ELSE IF quantity >= Abs(p.quantity) THEN
            LET cover_quantity == Abs(p.quantity)
                remaining_quantity == quantity - cover_quantity
            IN  [p EXCEPT !.realized_pnl = p.realized_pnl +
                              RealizedShort(p.average_price, price, cover_quantity, commission),
                          !.quantity = IF remaining_quantity > 0 THEN remaining_quantity ELSE 0,
                          !.average_price = IF remaining_quantity > 0 THEN price ELSE 0]
        ELSE
            [p EXCEPT !.realized_pnl = p.realized_pnl +
                          RealizedShort(p.average_price, price, quantity, commission),
                      !.quantity = p.quantity + quantity]
    ELSE
        IF p.quantity <= 0 THEN
            [p EXCEPT !.quantity = p.quantity - quantity,
                      !.average_price =
                          WeightedAverage(p.quantity, p.average_price, quantity, price)]
        ELSE IF quantity >= p.quantity THEN
            LET sell_quantity == p.quantity
                remaining_quantity == quantity - sell_quantity
            IN  [p EXCEPT !.realized_pnl = p.realized_pnl +
                              RealizedLong(p.average_price, price, sell_quantity, commission),
                          !.quantity = IF remaining_quantity > 0 THEN -remaining_quantity ELSE 0,
                          !.average_price = IF remaining_quantity > 0 THEN price ELSE 0]
        ELSE
            [p EXCEPT !.realized_pnl = p.realized_pnl +
                          RealizedLong(p.average_price, price, quantity, commission),
                      !.quantity = p.quantity - quantity]

\* the cash movement of Portfolio.update_fill
CashAfterFill_CommissionFree(c, side, quantity, price, commission) ==
    IF side = "buy" THEN c - quantity * price ELSE c + quantity * price

CashAfterFill_SellPaysNotional(c, side, quantity, price, commission) ==
    c - (quantity * price + commission)

CashAfterFill(c, side, quantity, price, commission) ==
    IF side = "buy" THEN c - (quantity * price + commission)
    ELSE c + (quantity * price - commission)

\* Portfolio.update_fill
UpdateFill(symbol, side, quantity, price, commission) ==
    /\ Len(trades) < MaxFills
    /\ LET position == IF symbol \in DOMAIN positions THEN positions[symbol] ELSE NewPosition
           updated == UpdatePosition(position, side, quantity, price, commission)
       IN  positions' = [s \in DOMAIN positions \cup {symbol} |->
                            IF s = symbol THEN updated ELSE positions[s]]
    /\ cash' = CashAfterFill(cash, side, quantity, price, commission)
    /\ trades' = Append(trades, [symbol |-> symbol, side |-> side, quantity |-> quantity,
                                 price |-> price, commission |-> commission])
    /\ total_commission' = total_commission + commission
    /\ UNCHANGED <<equity_curve, drawdown_curve>>
    /\ UNCHANGED <<ovars, xvars>>

\* Position.update_market_price
UpdateMarketPrice(p, new_price) ==
    [p EXCEPT !.market_price = new_price,
              !.unrealized_pnl = IF p.quantity # 0
                                 THEN (new_price - p.average_price) * p.quantity
                                 ELSE p.unrealized_pnl]

\* Portfolio.update_market_data
UpdateMarketData(symbol, price) ==
    /\ symbol \in DOMAIN positions
    /\ positions' = [positions EXCEPT ![symbol] = UpdateMarketPrice(positions[symbol], price)]
    /\ UNCHANGED <<cash, trades, equity_curve, drawdown_curve, total_commission>>
    /\ UNCHANGED <<ovars, xvars>>

RECURSIVE SumOver(_, _)
\* sum of f[x] over the set S
SumOver(f, S) ==
    IF S = {} THEN 0
    ELSE LET x == CHOOSE y \in S : TRUE IN f[x] + SumOver(f, S \ {x})

\* Portfolio.calculate_total_equity
TotalEquity(c, pos) ==
    c + SumOver([s \in DOMAIN pos |->
                    IF pos[s].quantity # 0 THEN market_value(pos[s]) ELSE 0], DOMAIN pos)

RECURSIVE SeqMax(_)
SeqMax(s) ==
    IF Len(s) = 1 THEN s[1]
    ELSE LET m == SeqMax(Tail(s)) IN IF s[1] >= m THEN s[1] ELSE m

\* the drawdown percentage of Portfolio.update_equity_curve
Drawdown(total_equity, peak) ==
    IF peak > 0 THEN RoundHalfEven((total_equity - peak) * DecUnit, peak) * 100
    ELSE RoundHalfEven((peak - total_equity) * DecUnit, -peak) * 100

\* Portfolio.update_equity_curve
UpdateEquityCurve ==
    /\ Len(equity_curve) < MaxSamples
    /\ LET total_equity == TotalEquity(cash, positions)
           curve == Append(equity_curve, total_equity)
       IN  /\ equity_curve' = curve
           /\ drawdown_curve' = Append(drawdown_curve, Drawdown(total_equity, SeqMax(curve)))
    /\ UNCHANGED <<cash, positions, trades, total_commission>>
    /\ UNCHANGED <<ovars, xvars>>

\* Portfolio.__init__
PortfolioInit ==
    /\ cash = Dec(InitialCapital)
    /\ positions = <<>>
    /\ trades = <<>>
    /\ equity_curve = <<>>
    /\ drawdown_curve = <<>>
    /\ total_commission = 0

\* the fills of the position runs: every symbol, side, quantity, price and
\* commission
PositionNext ==
    \E symbol \in Symbols, side \in Sides, quantity \in FillQtys,
       price \in Prices, commission \in Commissions :
       UpdateFill(symbol, side, quantity, Dec(price), Dec(commission))

\* the fills of the net-quantity runs: every symbol, side and price, every
\* quantity from 0 on, each paying a commission
NetQuantityNext ==
    \E symbol \in Symbols, side \in Sides, quantity \in NetQtys, price \in Prices :
       UpdateFill(symbol, side, quantity, Dec(price), Dec(1))

\* the ledger runs: fills that each pay a commission, market-price updates to
\* a price above or at every fill price, and equity samples
LedgerQtys == {1, 2}
LedgerCommissions == {1}
MarkPrices == {110}

PortfolioNext ==
    \/ \E symbol \in Symbols, side \in Sides, quantity \in LedgerQtys,
          price \in Prices, commission \in LedgerCommissions :
          UpdateFill(symbol, side, quantity, Dec(price), Dec(commission))
    \/ \E symbol \in Symbols, price \in MarkPrices : UpdateMarketData(symbol, Dec(price))
    \/ UpdateEquityCurve

----------------------------------------------------------------------------
(* Part II: OrderManager *)

\* OrderPriority
LOW == 1
NORMAL == 2
HIGH == 3
URGENT == 4

\* QueuedOrder.max_retries
max_retries == 3

\* an absent (None) price
NoPrice == -1

Threads == 1..MaxThreads

\* the ids submit_order hands out, and the ids _execute_*_order creates
ClientOrderId(k) == <<"order", k>>
ExchangeOrderId(k) == <<"test_order", k>>
\* an absent (None) client_order_id
NoId == <<"order", 0>>

\* OrderRequest.__post_init__: TRUE when the construction succeeds.  The
\* stop_price field is not part of the records: every stop order of the runs
\* is constructed with one, so the second check never raises here.
PostInit(request) ==
    ~(request.order_type \in {"limit", "stop_limit"} /\ request.price = NoPrice)

\* the constructions of an OrderRequest the callers attempt (symbol BTC_KRW)
RequestAttempts ==
    { [side |-> s, order_type |-> t, quantity |-> q, price |-> p, client_order_id |-> NoId] :
        <<s, t, q, p>> \in
            { <<"buy", "market", 1, NoPrice>>,
              <<"sell", "limit", 1, 100>>,
              <<"buy", "market", 0, NoPrice>>,
              <<"buy", "limit", 1, 0>>,
              <<"buy", "limit", 1, NoPrice>>,
              <<"sell", "stop", 1, NoPrice>> } }

\* the order requests submitted: the attempts whose construction succeeded
RequestKinds == { request \in RequestAttempts : PostInit(request) }

\* what the venue may answer: fault = the call raises
VenueStates ==
    { [fault |-> FALSE, krw |-> 1000, btc |-> 1, ticker |-> 100],
      [fault |-> FALSE, krw |-> 100, btc |-> NoPrice, ticker |-> 100],
      [fault |-> FALSE, krw |-> NoPrice, btc |-> 0, ticker |-> NoPrice],
      [fault |-> FALSE, krw |-> 1000, btc |-> 1, ticker |-> NoPrice],
      [fault |-> TRUE, krw |-> 1000, btc |-> 1, ticker |-> 100] }

\* QueuedOrder.__lt__
Lt(self, other) ==
    IF self.priority # other.priority THEN self.priority > other.priority
    ELSE self.created_at < other.created_at

RECURSIVE SiftDown(_, _, _, _)
\* heapq._siftdown; positions count from 0 as in the list
SiftDown(heap, startpos, pos, newitem) ==
    IF pos > startpos
    THEN LET parentpos == (pos - 1) \div 2
             parent == heap[parentpos + 1]
         IN  IF Lt(newitem, parent)
             THEN SiftDown([heap EXCEPT ![pos + 1] = parent], startpos, parentpos, newitem)
             ELSE [heap EXCEPT ![pos + 1] = newitem]
    ELSE [heap EXCEPT ![pos + 1] = newitem]

RECURSIVE SiftUp(_, _, _, _)
\* heapq._siftup
SiftUp(heap, startpos, pos, newitem) ==
    LET endpos == Len(heap)
        childpos == 2 * pos + 1
        rightpos == childpos + 1
    IN  IF childpos < endpos
        THEN LET c == IF rightpos < endpos /\ ~Lt(heap[childpos + 1], heap[rightpos + 1])
                      THEN rightpos ELSE childpos
             IN  SiftUp([heap EXCEPT ![pos + 1] = heap[c + 1]], startpos, c, newitem)
        ELSE SiftDown([heap EXCEPT ![pos + 1] = newitem], startpos, pos, newitem)

\* PriorityQueue.put: heapq.heappush
HeapPush(heap, item) ==
    LET h == Append(heap, item) IN SiftDown(h, 0, Len(h) - 1, item)

\* PriorityQueue.get: the item heapq.heappop returns
HeapPopItem(heap) == heap[1]

\* PriorityQueue.get: the heap heapq.heappop leaves
HeapPopRest(heap) ==
    LET lastelt == heap[Len(heap)]
        rest == SubSeq(heap, 1, Len(heap) - 1)
    IN  IF rest # <<>> THEN SiftUp([rest EXCEPT ![1] = lastelt], 0, 0, lastelt) ELSE rest

\* OrderManager.submit_order
SubmitOrder(request, priority) ==
    /\ submitted < MaxOrders
    /\ LET queued_order ==
               [request |-> IF request.client_order_id = NoId
                            THEN [request EXCEPT !.client_order_id = ClientOrderId(submitted + 1)]
                            ELSE request,
                priority |-> priority, created_at |-> now, retry_count |-> 0]
       IN  order_queue' = HeapPush(order_queue, queued_order)
    /\ submitted' = submitted + 1
    /\ UNCHANGED <<running, pending_orders, active_orders, order_history,
                   order_update_callbacks, worker_thread, worker_pc, worker_order,
                   stopping, now, venue, notified, last_cancel, oplog>>
    /\ UNCHANGED <<pvars, xvars>>

\* OrderManager._check_buying_power
CheckBuyingPower(request, v) ==
    IF v.fault THEN FALSE
    ELSE IF v.krw = NoPrice THEN FALSE
    ELSE IF request.order_type = "market" /\ v.ticker = NoPrice THEN FALSE
    ELSE LET estimated_price ==
                 IF request.order_type = "market" THEN v.ticker ELSE request.price
         IN  IF estimated_price = NoPrice THEN FALSE
             ELSE v.krw * 10000 >= request.quantity * estimated_price * 10025

\* OrderManager._check_sell_quantity
CheckSellQuantity(request, v) ==
    IF v.fault THEN FALSE
    ELSE IF v.btc = NoPrice THEN FALSE
    ELSE v.btc >= request.quantity

\* OrderManager._validate_order
ValidateOrder_NoBalanceCheck(request, v) ==
    IF request.quantity <= 0 THEN FALSE
    ELSE IF request.order_type = "limit" /\ (request.price = NoPrice \/ request.price <= 0)
    THEN FALSE
    ELSE TRUE

ValidateOrder(request, v) ==
    IF request.quantity <= 0 THEN FALSE
    ELSE IF request.order_type = "limit" /\ (request.price = NoPrice \/ request.price <= 0)
    THEN FALSE
    ELSE IF request.side = "buy" THEN CheckBuyingPower(request, v)
    ELSE CheckSellQuantity(request, v)

\* the status _execute_market_order and _execute_limit_order create an order with
ExecutedStatus_Filled == "filled"

ExecutedStatus == "submitted"

\* OrderManager._execute_order: the OrderResult, or {} for None
ExecuteOrder(request) ==
    IF request.order_type \in {"market", "limit"}
    THEN {[order_id |-> ExchangeOrderId(request.client_order_id[2]), client_order_id |-> request.client_order_id,
           status |-> ExecutedStatus, updated_at |-> now]}
    ELSE {}

\* OrderManager._notify_order_update: the observers invoked when those in
\* raisers raise
NotifyOrderUpdate(callbacks, raisers) == 1..callbacks

\* OrderManager.add_order_update_callback
AddOrderUpdateCallback ==
    /\ order_update_callbacks < MaxObservers
    /\ order_update_callbacks' = order_update_callbacks + 1
    /\ UNCHANGED <<running, order_queue, pending_orders, active_orders, order_history,
                   worker_thread, worker_pc, worker_order, stopping, now, submitted,
                   venue, notified, last_cancel, oplog>>
    /\ UNCHANGED <<pvars, xvars>>

\* OrderManager.start: a new worker thread enters _worker_loop.  (The monitor
\* thread and the _sync_positions that ends start() touch only _positions:
\* they are the steps of Part X.)
Start ==
    /\ ~running
    /\ ~stopping
    /\ \E w \in Threads :
          /\ worker_pc[w] = "unborn"
          /\ \A u \in Threads : u < w => worker_pc[u] # "unborn"
          /\ worker_thread' = w
          /\ worker_pc' = [worker_pc EXCEPT ![w] = "loop"]
    /\ running' = TRUE
    /\ UNCHANGED <<order_queue, pending_orders, active_orders, order_history,
                   order_update_callbacks, worker_order, stopping, now, submitted,
                   venue, notified, last_cancel, oplog>>
    /\ UNCHANGED <<pvars, xvars>>

\* OrderManager.stop, up to the join of the worker thread
StopBegin ==
    /\ running
    /\ ~stopping
    /\ running' = FALSE
    /\ stopping' = TRUE
    /\ UNCHANGED <<order_queue, pending_orders, active_orders, order_history,
                   order_update_callbacks, worker_thread, worker_pc, worker_order,
                   now, submitted, venue, notified, last_cancel, oplog>>
    /\ UNCHANGED <<pvars, xvars>>

\* OrderManager.stop returns: the worker has left its loop, or join(timeout=5)
\* gave up on a worker that is still processing an order
StopReturn ==
    /\ stopping
    /\ worker_pc[worker_thread] \in {"exited", "process"}
    /\ stopping' = FALSE
    /\ UNCHANGED <<running, order_queue, pending_orders, active_orders, order_history,
                   order_update_callbacks, worker_thread, worker_pc, worker_order,
                   now, submitted, venue, notified, last_cancel, oplog>>
    /\ UNCHANGED <<pvars, xvars>>

\* _worker_loop with the limit check reading > in place of >=
WorkerCheck_AboveLimit(w) ==
    /\ worker_pc[w] = "loop"
    /\ worker_pc' = [worker_pc EXCEPT ![w] =
                        IF ~running THEN "exited"
                        ELSE IF Cardinality(active_orders) > MaxConcurrentOrders THEN "loop"
                        ELSE "get"]
    /\ UNCHANGED <<running, order_queue, pending_orders, active_orders, order_history,
                   order_update_callbacks, worker_thread, worker_order, stopping, now,
                   submitted, venue, notified, last_cancel, oplog>>
    /\ UNCHANGED <<pvars, xvars>>

\* _worker_loop: the loop condition and the concurrency limit
WorkerCheck(w) ==
    /\ worker_pc[w] = "loop"
    /\ worker_pc' = [worker_pc EXCEPT ![w] =
                        IF ~running THEN "exited"
                        ELSE IF Cardinality(active_orders) >= MaxConcurrentOrders THEN "loop"
                        ELSE "get"]
    /\ UNCHANGED <<running, order_queue, pending_orders, active_orders, order_history,
                   order_update_callbacks, worker_thread, worker_order, stopping, now,
                   submitted, venue, notified, last_cancel, oplog>>
    /\ UNCHANGED <<pvars, xvars>>

\* _worker_loop: self._order_queue.get(timeout=1)
WorkerGet(w) ==
    /\ worker_pc[w] = "get"
    /\ IF order_queue = <<>>
       THEN /\ worker_pc' = [worker_pc EXCEPT ![w] = "loop"]
            /\ UNCHANGED <<order_queue, worker_order>>
       ELSE /\ worker_pc' = [worker_pc EXCEPT ![w] = "process"]
            /\ worker_order' = [worker_order EXCEPT ![w] = {HeapPopItem(order_queue)}]
            /\ order_queue' = HeapPopRest(order_queue)
    /\ UNCHANGED <<running, pending_orders, active_orders, order_history,
                   order_update_callbacks, worker_thread, stopping, now, submitted,
                   venue, notified, last_cancel, oplog>>
    /\ UNCHANGED <<pvars, xvars>>

\* the validation reached the venue and the venue call raised
GatewayError(request, v) ==
    /\ request.quantity > 0
    /\ ~(request.order_type = "limit" /\ (request.price = NoPrice \/ request.price <= 0))
    /\ v.fault

\* OrderManager._process_order.  Its retry branch (the except clause) is not
\* entered: _validate_order, _execute_order and _notify_order_update each
\* catch every exception raised inside them.
ProcessOrder(w) ==
    /\ worker_pc[w] = "process"
    /\ \E queued_order \in worker_order[w], raisers \in SUBSET (1..order_update_callbacks) :
          LET request == queued_order.request
              id == request.client_order_id
          IN  IF ~ValidateOrder(request, venue)
              THEN /\ oplog' = oplog \cup {<<"validation_failed", id>>}
                               \cup (IF GatewayError(request, venue)
                                     THEN {<<"gateway_error", id>>} ELSE {})
                   /\ UNCHANGED <<pending_orders, active_orders, notified>>
              ELSE LET result == ExecuteOrder(request)
                   IN  IF \E r \in result : r.status # "rejected"
                       THEN \E r \in result :
                              /\ active_orders' = active_orders \cup {r.order_id}
                              /\ pending_orders' =
                                    [o \in DOMAIN pending_orders \cup {r.order_id} |->
                                        IF o = r.order_id THEN r ELSE pending_orders[o]]
                              /\ notified' = notified \cup
                                    {<<ob, r.order_id, r.status>> :
                                        ob \in NotifyOrderUpdate(order_update_callbacks, raisers)}
                              /\ oplog' = oplog \cup {<<"execute", id>>, <<"executed", id>>}
                       ELSE /\ oplog' = oplog \cup {<<"execute", id>>, <<"execution_failed", id>>}
                            /\ UNCHANGED <<pending_orders, active_orders, notified>>
    /\ worker_pc' = [worker_pc EXCEPT ![w] = "loop"]
    /\ worker_order' = [worker_order EXCEPT ![w] = {}]
    /\ UNCHANGED <<running, order_queue, order_history, order_update_callbacks,
                   worker_thread, stopping, now, submitted, venue, last_cancel>>
    /\ UNCHANGED <<pvars, xvars>>

\* cancel_order: the key of _pending_orders the id resolves to ({} when none)
ResolveOrderId(order_id) ==
    IF order_id \in DOMAIN pending_orders THEN {order_id}
    ELSE {oid \in DOMAIN pending_orders : pending_orders[oid].client_order_id = order_id}

\* the status cancel_order writes
CancelledStatus == "cancelled"

\* OrderManager.cancel_order; accepted is the venue's answer to client.cancel_order
CancelOrder(order_id, accepted) ==
    /\ last_cancel.n < MaxCancels
    /\ LET found == ResolveOrderId(order_id)
           done == found # {} /\ ~venue.fault /\ accepted
       IN  /\ pending_orders' =
                 IF done
                 THEN [o \in DOMAIN pending_orders |->
                          IF o \in found
                          THEN [pending_orders[o] EXCEPT !.status = CancelledStatus,
                                                         !.updated_at = now]
                          ELSE pending_orders[o]]
                 ELSE pending_orders
           /\ last_cancel' = [n |-> last_cancel.n + 1, order_id |-> order_id, returned |-> done]
    /\ UNCHANGED <<running, order_queue, active_orders, order_history,
                   order_update_callbacks, worker_thread, worker_pc, worker_order,
                   stopping, now, submitted, venue, notified, oplog>>
    /\ UNCHANGED <<pvars, xvars>>

\* OrderManager.get_order_status: the OrderResult found ({} for None)
GetOrderStatus(order_id) ==
    IF order_id \in DOMAIN pending_orders THEN {pending_orders[order_id]}
    ELSE IF order_id \in DOMAIN order_history THEN {order_history[order_id]}
    ELSE {pending_orders[o] : o \in {x \in DOMAIN pending_orders :
                                        pending_orders[x].client_order_id = order_id}}
         \cup {order_history[o] : o \in {x \in DOMAIN order_history :
                                        order_history[x].client_order_id = order_id}}

\* the clock advances between two readings of datetime.now()
Tick ==
    /\ now < MaxClock
    /\ now' = now + 1
    /\ UNCHANGED <<running, order_queue, pending_orders, active_orders, order_history,
                   order_update_callbacks, worker_thread, worker_pc, worker_order,
                   stopping, submitted, venue, notified, last_cancel, oplog>>
    /\ UNCHANGED <<pvars, xvars>>

\* the venue's balances, ticker or availability change
VenueChange(v) ==
    /\ v # venue
    /\ venue' = v
    /\ UNCHANGED <<running, order_queue, pending_orders, active_orders, order_history,
                   order_update_callbacks, worker_thread, worker_pc, worker_order,
                   stopping, now, submitted, notified, last_cancel, oplog>>
    /\ UNCHANGED <<pvars, xvars>>

\* OrderManager.__init__
OrderManagerInit ==
    /\ running = FALSE
    /\ order_queue = <<>>
    /\ pending_orders = <<>>
    /\ active_orders = {}
    /\ order_history = <<>>
    /\ order_update_callbacks = 0
    /\ worker_thread = 0
    /\ worker_pc = [w \in Threads |-> "unborn"]
    /\ worker_order = [w \in Threads |-> {}]
    /\ stopping = FALSE
    /\ now = 0
    /\ submitted = 0
    /\ venue = [fault |-> FALSE, krw |-> 1000, btc |-> 1, ticker |-> 100]
    /\ notified = {}
    /\ last_cancel = [n |-> 0, order_id |-> NoId, returned |-> FALSE]
    /\ oplog = {}

CancelIds == {ClientOrderId(k) : k \in 1..MaxOrders} \cup {ExchangeOrderId(k) : k \in 1..MaxOrders}

\* one request of each kind
MarketBuy == [side |-> "buy", order_type |-> "market", quantity |-> 1, price |-> NoPrice,
              client_order_id |-> NoId]
LimitSell == [side |-> "sell", order_type |-> "limit", quantity |-> 1, price |-> 100,
              client_order_id |-> NoId]
StopSell == [side |-> "sell", order_type |-> "stop", quantity |-> 1, price |-> NoPrice,
             client_order_id |-> NoId]

\* submissions of the scheduler runs: every kind of request at NORMAL
\* priority, and a market buy at HIGH priority
SchedulerSubmissions == (RequestKinds \X {NORMAL}) \cup {<<MarketBuy, HIGH>>}

\* submissions of the lifecycle runs
LifecycleSubmissions == {MarketBuy, LimitSell, StopSell} \X {NORMAL}

\* submissions of the restart runs
RestartSubmissions == {MarketBuy, LimitSell} \X {NORMAL}

----------------------------------------------------------------------------
(* Part III: BacktestEngine *)

\* Prices and quantities are held in units of 1/EngineUnit, money (cash,
\* commission, realized PnL, equity) in units of 1/EngineUnit^2, so that
\* quantity * price is money without rescaling.
EngineUnit == Pow10(2)

\* commission_rate = Decimal('0.0025') = 1/400
CommissionDivisor == 400
\* ExecutionHandler.slippage_rate = Decimal('0.001') = 1/1000
SlippageDivisor == 1000

\* close prices of the candles, in currency units
Closes == {10, 20}

\* the order in which add_data registered the symbols (market_data is a dict)
SymbolOrder == <<"BTC_KRW", "ETH_KRW">>

MarketEvent(timestamp, symbol, close_price) ==
    [event_type |-> "market", timestamp |-> timestamp, symbol |-> symbol, side |-> "none",
     order_type |-> "none", quantity |-> 0, price |-> close_price, commission |-> 0]

SignalEvent(timestamp, symbol, signal_type) ==
    [event_type |-> "signal", timestamp |-> timestamp, symbol |-> symbol, side |-> signal_type,
     order_type |-> "none", quantity |-> 0, price |-> NoPrice, commission |-> 0]

OrderEvent(timestamp, symbol, order_type, side, quantity, price) ==
    [event_type |-> "order", timestamp |-> timestamp, symbol |-> symbol, side |-> side,
     order_type |-> order_type, quantity |-> quantity, price |-> price, commission |-> 0]

FillEvent(timestamp, symbol, side, quantity, fill_price, commission) ==
    [event_type |-> "fill", timestamp |-> timestamp, symbol |-> symbol, side |-> side,
     order_type |-> "none", quantity |-> quantity, price |-> fill_price,
     commission |-> commission]

\* current_price * (1 + slippage_rate) for a buy, * (1 - slippage_rate) for a sell
SlippedPrice(side, current_price) ==
    IF side = "buy" THEN current_price + RoundHalfEven(current_price, SlippageDivisor)
    ELSE current_price - RoundHalfEven(current_price, SlippageDivisor)

\* order_event.quantity * fill_price * commission_rate
Commission(quantity, fill_price) == RoundHalfEven(quantity * fill_price, CommissionDivisor)

\* the truth value of order_event.price: None and Decimal('0') are both false
PriceIsSet(price) == price # NoPrice /\ price # 0

\* ExecutionHandler.execute_order: the fill events it puts on the queue
execute_order(order_event, current_price) ==
    LET slipped == SlippedPrice(order_event.side, current_price)
        limited == order_event.order_type = "limit" /\ PriceIsSet(order_event.price)
        missed == \/ order_event.side = "buy" /\ slipped > order_event.price
                  \/ order_event.side = "sell" /\ slipped < order_event.price
        fill_price == IF limited THEN order_event.price ELSE slipped
    IN  IF limited /\ missed THEN <<>>
        ELSE <<FillEvent(order_event.timestamp, order_event.symbol, order_event.side,
                         order_event.quantity, fill_price,
                         Commission(order_event.quantity, fill_price))>>

\* Portfolio.calculate_buying_power: cash / (price + price * commission_rate)
BuyingPower(c, price) ==
    IF c >= 0
    THEN RoundHalfEven(c * CommissionDivisor, price * (CommissionDivisor + 1))
    ELSE -RoundHalfEven((-c) * CommissionDivisor, price * (CommissionDivisor + 1))

\* a signal handler that puts the signal back behind its order
SignalOrders_Requeued(event) ==
    IF event.symbol \notin DOMAIN current_data THEN <<>>
    ELSE LET current_price == current_data[event.symbol]
             held == IF event.symbol \in DOMAIN positions
                     THEN positions[event.symbol].quantity ELSE 0
             \* min(buying_power, current_price): a quantity against a price,
             \* compared as numbers
             quantity == IF event.side = "buy"
                         THEN Min(BuyingPower(cash, current_price), current_price)
                         ELSE held
         IN  IF quantity > 0
             THEN <<OrderEvent(event.timestamp, event.symbol, "market", event.side,
                               quantity, NoPrice), event>>
             ELSE <<>>

\* the order events _handle_signal_event puts on the queue
SignalOrders(event) ==
    IF event.symbol \notin DOMAIN current_data THEN <<>>
    ELSE LET current_price == current_data[event.symbol]
             held == IF event.symbol \in DOMAIN positions
                     THEN positions[event.symbol].quantity ELSE 0
             \* min(buying_power, current_price): a quantity against a price,
             \* compared as numbers
             quantity == IF event.side = "buy"
                         THEN Min(BuyingPower(cash, current_price), current_price)
                         ELSE held
         IN  IF quantity > 0
             THEN <<OrderEvent(event.timestamp, event.symbol, "market", event.side,
                               quantity, NoPrice)>>
             ELSE <<>>

\* BacktestEngine.run up to its loop over the sorted timestamps
Run ==
    /\ engine_pc = "idle"
    /\ engine_pc' = "generate"
    /\ UNCHANGED <<events, current_time, current_data, processed>>
    /\ UNCHANGED <<pvars, ovars, yvars>>

\* run: the next timestamp, generate_market_events and the put of its events
GenerateMarketEvents(candles) ==
    /\ engine_pc = "generate"
    /\ current_time' = current_time + 1
    /\ current_data' = [s \in DOMAIN current_data \cup DOMAIN candles |->
                           IF s \in DOMAIN candles THEN candles[s] ELSE current_data[s]]
    /\ LET present == SelectSeq(SymbolOrder, LAMBDA s : s \in DOMAIN candles)
       IN  events' = events \o [i \in 1..Len(present) |->
                                   MarketEvent(current_time', present[i], candles[present[i]])]
    /\ engine_pc' = "process_market"
    /\ UNCHANGED processed
    /\ UNCHANGED <<pvars, ovars, yvars>>

\* the head of the queue, as process_events gets it
Processing(event_type) ==
    /\ engine_pc \in {"process_market", "process_strategy"}
    /\ events # <<>>
    /\ Head(events).event_type = event_type

\* process_events on a market event: _handle_market_event, event callbacks
HandleMarketEvent ==
    /\ Processing("market")
    /\ LET event == Head(events)
       IN  /\ positions' = IF event.symbol \in DOMAIN positions
                           THEN [positions EXCEPT ![event.symbol] =
                                    UpdateMarketPrice(positions[event.symbol], event.price)]
                           ELSE positions
           /\ events' = Tail(events)
           /\ processed' = Append(processed, event)
    /\ UNCHANGED <<cash, trades, equity_curve, drawdown_curve, total_commission>>
    /\ UNCHANGED <<current_time, current_data, engine_pc>>
    /\ UNCHANGED <<ovars, yvars>>

\* process_events on a signal event: _handle_signal_event, event callbacks
HandleSignalEvent ==
    /\ Processing("signal")
    /\ LET event == Head(events)
       IN  /\ events' = Tail(events) \o SignalOrders(event)
           /\ processed' = Append(processed, event)
    /\ UNCHANGED <<current_time, current_data, engine_pc>>
    /\ UNCHANGED <<pvars, ovars, yvars>>

\* process_events on an order event: _handle_order_event, event callbacks
HandleOrderEvent ==
    /\ Processing("order")
    /\ LET event == Head(events)
       IN  /\ events' = Tail(events) \o
                           (IF event.symbol \in DOMAIN current_data
                            THEN execute_order(event, current_data[event.symbol])
                            ELSE <<>>)
           /\ processed' = Append(processed, event)
    /\ UNCHANGED <<current_time, current_data, engine_pc>>
    /\ UNCHANGED <<pvars, ovars, yvars>>

\* a fill that marks a position it creates at the fill price
HandleFillEvent_Marked ==
    /\ Processing("fill")
    /\ LET event == Head(events)
           position == IF event.symbol \in DOMAIN positions
                       THEN positions[event.symbol] ELSE NewPosition
           updated == UpdatePosition(position, event.side, event.quantity, event.price,
                                     event.commission)
       IN  /\ positions' = [s \in DOMAIN positions \cup {event.symbol} |->
                               IF s # event.symbol THEN positions[s]
                               ELSE IF s \in DOMAIN positions THEN updated
                               ELSE [updated EXCEPT !.market_price = event.price]]
           /\ cash' = CashAfterFill(cash, event.side, event.quantity, event.price,
                                    event.commission)
           /\ trades' = Append(trades, [symbol |-> event.symbol, side |-> event.side,
                                        quantity |-> event.quantity, price |-> event.price,
                                        commission |-> event.commission])
           /\ total_commission' = total_commission + event.commission
           /\ events' = Tail(events)
           /\ processed' = Append(processed, event)
    /\ UNCHANGED <<equity_curve, drawdown_curve>>
    /\ UNCHANGED <<current_time, current_data, engine_pc>>
    /\ UNCHANGED <<ovars, yvars>>

\* process_events on a fill event: _handle_fill_event (Portfolio.update_fill),
\* event callbacks
HandleFillEvent ==
    /\ Processing("fill")
    /\ LET event == Head(events)
           position == IF event.symbol \in DOMAIN positions
                       THEN positions[event.symbol] ELSE NewPosition
           updated == UpdatePosition(position, event.side, event.quantity, event.price,
                                     event.commission)
       IN  /\ positions' = [s \in DOMAIN positions \cup {event.symbol} |->
                               IF s = event.symbol THEN updated ELSE positions[s]]
           /\ cash' = CashAfterFill(cash, event.side, event.quantity, event.price,
                                    event.commission)
           /\ trades' = Append(trades, [symbol |-> event.symbol, side |-> event.side,
                                        quantity |-> event.quantity, price |-> event.price,
                                        commission |-> event.commission])
           /\ total_commission' = total_commission + event.commission
           /\ events' = Tail(events)
           /\ processed' = Append(processed, event)
    /\ UNCHANGED <<equity_curve, drawdown_curve>>
    /\ UNCHANGED <<current_time, current_data, engine_pc>>
    /\ UNCHANGED <<ovars, yvars>>

\* process_events returns once the queue is empty
ProcessEventsReturn ==
    /\ engine_pc \in {"process_market", "process_strategy"}
    /\ events = <<>>
    /\ engine_pc' = IF engine_pc = "process_market" THEN "strategy" ELSE "sample"
    /\ UNCHANGED <<events, current_time, current_data, processed>>
    /\ UNCHANGED <<pvars, ovars, yvars>>

\* what a strategy callback may call: submit_signal and submit_order
SubmitSignal(symbol, signal_type) == SignalEvent(0, symbol, signal_type)
SubmitOrder_Engine(symbol, side, order_type, quantity, price) ==
    OrderEvent(0, symbol, order_type, side, quantity, price)

\* the calls of the strategy callbacks of the runs: signals of both sides, a
\* market buy, limit buys at 0 and at the lower close, a limit sell at the
\* lower close
StrategyCalls ==
    {SubmitSignal("BTC_KRW", side) : side \in Sides}
    \cup {SubmitOrder_Engine("BTC_KRW", "buy", "market", EngineUnit, NoPrice),
          SubmitOrder_Engine("BTC_KRW", "buy", "limit", EngineUnit, 0),
          SubmitOrder_Engine("BTC_KRW", "buy", "limit", EngineUnit, 10 * EngineUnit),
          SubmitOrder_Engine("BTC_KRW", "sell", "limit", EngineUnit, 10 * EngineUnit)}

\* run_strategy_callbacks: the callback's submit_signal / submit_order calls,
\* each putting one event stamped with current_time
RunStrategyCallbacks(calls) ==
    /\ engine_pc = "strategy"
    /\ events' = events \o [i \in 1..Len(calls) |->
                               [calls[i] EXCEPT !.timestamp = current_time]]
    /\ engine_pc' = "process_strategy"
    /\ UNCHANGED <<current_time, current_data, processed>>
    /\ UNCHANGED <<pvars, ovars, yvars>>

\* run: Portfolio.update_equity_curve for the timestamp, then the next
\* timestamp or the end of the loop; the division by a zero peak raises after
\* the equity point was appended, and run re-raises
UpdateEquityCurve_Engine ==
    /\ engine_pc = "sample"
    /\ LET total_equity == TotalEquity(cash, positions)
           curve == Append(equity_curve, total_equity)
           peak == SeqMax(curve)
       IN  /\ equity_curve' = curve
           /\ IF peak = 0
              THEN /\ drawdown_curve' = drawdown_curve
                   /\ engine_pc' = "raised"
              ELSE /\ drawdown_curve' = Append(drawdown_curve, Drawdown(total_equity, peak))
                   /\ engine_pc' = IF current_time < MaxTimestamps THEN "generate" ELSE "done"
    /\ UNCHANGED <<cash, positions, trades, total_commission>>
    /\ UNCHANGED <<events, current_time, current_data, processed>>
    /\ UNCHANGED <<ovars, yvars>>

\* BacktestEngine.__init__
EngineInit ==
    /\ events = <<>>
    /\ current_time = 0
    /\ current_data = <<>>
    /\ engine_pc = "idle"
    /\ processed = <<>>

\* Portfolio(initial_capital, commission_rate) as BacktestEngine.__init__ builds it
EnginePortfolioInit ==
    /\ cash = EngineCapital * EngineUnit
    /\ positions = <<>>
    /\ trades = <<>>
    /\ equity_curve = <<>>
    /\ drawdown_curve = <<>>
    /\ total_commission = 0

\* the candles of one timestamp: a close for every symbol that has one
Candles == UNION {[present -> {c * EngineUnit : c \in Closes}] :
                     present \in SUBSET Symbols \ {{}}}

\* the calls of one round of strategy callbacks
CallSeqs == UNION {[1..k -> StrategyCalls] : k \in 0..MaxSubmits}

----------------------------------------------------------------------------
(* Part IV: IndicatorCache *)

Callers == 1..MaxCallers
CacheKeys == 1..MaxKeys
\* what compute() may return
CacheValues == {7, 8}

\* the keys of an OrderedDict, oldest first
KeysOf(st) == {st[i].key : i \in 1..Len(st)}

\* self._store[key] of a key that is in the store
ValueOf(st, key) == (CHOOSE e \in {st[i] : i \in 1..Len(st)} : e.key = key).value

\* value = self._store.pop(key); self._store[key] = value
Touch_InPlace(st, key) == st

Touch(st, key) ==
    SelectSeq(st, LAMBDA e : e.key # key) \o <<[key |-> key, value |-> ValueOf(st, key)]>>

\* self._store[key] = value: a new key goes to the end, a key already there
\* keeps its place
Put(st, key, value) ==
    IF key \in KeysOf(st)
    THEN [i \in 1..Len(st) |-> IF st[i].key = key THEN [key |-> key, value |-> value]
                               ELSE st[i]]
    ELSE Append(st, [key |-> key, value |-> value])

\* if len(self._store) > self._max_size: self._store.popitem(last=False)
Evict(st) == IF Len(st) > max_size THEN Tail(st) ELSE st

\* with self._lock: the lock can be taken
CanAcquire_Unguarded(l) == TRUE

CanAcquire(l) == l = 0

\* what is recorded of a key that is not cached
Unused == [invocations |-> 0, hits |-> 0, values |-> {}, last_used |-> 0]

\* a call that has not returned
NoReturn == [value |-> 0, computed |-> FALSE]

\* key = (symbol, indicator, period, candles[-1].timestamp), for the calls of
\* one indicator and period on one symbol: these differ in the timestamp only
KeyOf(candles) == candles[Len(candles)].timestamp

\* a thread calls get_or_compute(symbol, indicator, period, candles, compute);
\* compute is given as the value the callable returns when it is invoked
GetOrCompute(t, candles, compute) ==
    /\ cache_pc[t] = "idle"
    /\ cache_calls < MaxCacheCalls
    /\ cache_calls' = cache_calls + 1
    /\ cache_pc' = [cache_pc EXCEPT ![t] = "waiting"]
    /\ cache_key' = [cache_key EXCEPT ![t] = KeyOf(candles)]
    /\ cache_call' = [cache_call EXCEPT ![t] = [candles |-> candles, compute |-> compute]]
    /\ cache_return' = [cache_return EXCEPT ![t] = NoReturn]
    /\ UNCHANGED <<store, lock, uses, usage>>
    /\ UNCHANGED <<pvars, ovars, evars, svars, wvars>>

\* with self._lock
Acquire(t) ==
    /\ cache_pc[t] = "waiting"
    /\ CanAcquire(lock)
    /\ lock' = t
    /\ cache_pc' = [cache_pc EXCEPT ![t] = "locked"]
    /\ UNCHANGED <<store, cache_key, cache_call, cache_return, cache_calls, uses, usage>>
    /\ UNCHANGED <<pvars, ovars, evars, svars, wvars>>

\* a hit that returns what the caller's own compute gives on its candles
CacheHit_OwnCandles(t) ==
    /\ cache_pc[t] = "locked"
    /\ cache_key[t] \in KeysOf(store)
    /\ LET key == cache_key[t]
       IN  /\ store' = Touch(store, key)
           /\ uses' = uses + 1
           /\ usage' = [usage EXCEPT ![key] =
                           [@ EXCEPT !.hits = @ + 1,
                                     !.values = @ \cup {ValueOf(store, key)},
                                     !.last_used = uses']]
           /\ cache_return' = [cache_return EXCEPT ![t] =
                                  [value |-> cache_call[t].compute, computed |-> FALSE]]
    /\ lock' = 0
    /\ cache_pc' = [cache_pc EXCEPT ![t] = "idle"]
    /\ UNCHANGED <<cache_key, cache_call, cache_calls>>
    /\ UNCHANGED <<pvars, ovars, evars, svars, wvars>>

\* if key in self._store: pop, reinsert, return value (the lock is released)
CacheHit(t) ==
    /\ cache_pc[t] = "locked"
    /\ cache_key[t] \in KeysOf(store)
    /\ LET key == cache_key[t]
       IN  /\ store' = Touch(store, key)
           /\ uses' = uses + 1
           /\ usage' = [usage EXCEPT ![key] =
                           [@ EXCEPT !.hits = @ + 1,
                                     !.values = @ \cup {ValueOf(store, key)},
                                     !.last_used = uses']]
           /\ cache_return' = [cache_return EXCEPT ![t] =
                                  [value |-> ValueOf(store, key), computed |-> FALSE]]
    /\ lock' = 0
    /\ cache_pc' = [cache_pc EXCEPT ![t] = "idle"]
    /\ UNCHANGED <<cache_key, cache_call, cache_calls>>
    /\ UNCHANGED <<pvars, ovars, evars, svars, wvars>>

\* the key is not in the store: compute() is called next
CacheMiss(t) ==
    /\ cache_pc[t] = "locked"
    /\ cache_key[t] \notin KeysOf(store)
    /\ cache_pc' = [cache_pc EXCEPT ![t] = "computing"]
    /\ UNCHANGED <<store, lock, cache_key, cache_call, cache_return, cache_calls, uses, usage>>
    /\ UNCHANGED <<pvars, ovars, evars, svars, wvars>>

\* value = compute(); store it; evict; return value (the lock is released)
Compute(t, value) ==
    /\ cache_pc[t] = "computing"
    /\ LET key == cache_key[t]
           stored == Put(store, key, value)
       IN  /\ store' = Evict(stored)
           /\ uses' = uses + 1
           /\ usage' = [k \in CacheKeys |->
                           IF k \in KeysOf(stored) \ KeysOf(store')
                           THEN [Unused EXCEPT !.last_used = usage[k].last_used]
                           ELSE IF k = key
                           THEN [usage[k] EXCEPT !.invocations = @ + 1,
                                                 !.values = @ \cup {value},
                                                 !.last_used = uses']
                           ELSE usage[k]]
    /\ cache_return' = [cache_return EXCEPT ![t] = [value |-> value, computed |-> TRUE]]
    /\ lock' = 0
    /\ cache_pc' = [cache_pc EXCEPT ![t] = "idle"]
    /\ UNCHANGED <<cache_key, cache_call, cache_calls>>
    /\ UNCHANGED <<pvars, ovars, evars, svars, wvars>>

\* compute() raises: the with statement releases the lock, nothing is stored
ComputeRaises(t) ==
    /\ cache_pc[t] = "computing"
    /\ lock' = 0
    /\ cache_pc' = [cache_pc EXCEPT ![t] = "idle"]
    /\ UNCHANGED <<store, cache_key, cache_call, cache_return, cache_calls, uses, usage>>
    /\ UNCHANGED <<pvars, ovars, evars, svars, wvars>>

\* the candle sequences the callers pass that end at one timestamp: they
\* differ in length and in the candles before the last
CandlesEndingAt(timestamp) ==
    { <<[timestamp |-> timestamp, close |-> 10]>>,
      <<[timestamp |-> timestamp - 1, close |-> 10], [timestamp |-> timestamp, close |-> 10]>>,
      <<[timestamp |-> timestamp - 1, close |-> 20], [timestamp |-> timestamp, close |-> 10]>> }

CacheCandles == UNION {CandlesEndingAt(key) : key \in CacheKeys}

\* IndicatorCache.__init__
CacheInit ==
    /\ store = <<>>
    /\ lock = 0
    /\ cache_pc = [t \in Callers |-> "idle"]
    /\ cache_key = [t \in Callers |-> 0]
    /\ cache_call = [t \in Callers |-> [candles |-> <<>>, compute |-> 0]]
    /\ cache_return = [t \in Callers |-> NoReturn]
    /\ cache_calls = 0
    /\ uses = 0
    /\ usage = [k \in CacheKeys |-> Unused]

----------------------------------------------------------------------------
(* Part V: SignalGenerator *)

\* Prices, EMAs, ATR and RSI are whole numbers; volume ratios are in tenths,
\* percentages in hundredths, strengths in units of 1/StrengthUnit.
StrengthUnit == Pow10(4)

\* StrategyParameters, at their defaults
rsi_buy_min == 50
rsi_buy_max == 70
rsi_sell_threshold == 45
rsi_overbought == 70
trailing_atr_multiplier == 2
\* Decimal("0.03"), Decimal("0.02"): in hundredths
stop_loss_pct == 3
target_profit_pct == 2

\* prev_short / prev_long when _compute_previous_ema returns None
NoEma == NoPrice

\* the decision before generate has returned
NoDecision == [signal_type |-> "NONE", strength |-> 0, reasons |-> <<>>]

\* an exception leaves _evaluate_buy: no decision is returned
Raised == [signal_type |-> "RAISED", strength |-> 0, reasons |-> <<>>]

\* SignalGenerator._build_decision: the strength is clamped to [0, 1]
BuildDecision(signal_type, strength, reasons) ==
    [signal_type |-> signal_type,
     strength |-> IF Min(strength, StrengthUnit) >= 0 THEN Min(strength, StrengthUnit) ELSE 0,
     reasons |-> reasons]

\* SignalGenerator._hold
Hold == BuildDecision("HOLD", 0, <<"conditions not met">>)

\* the reasons whose flags are set, in the order the code appends them
Reasons(flags, names) ==
    LET fired == SelectSeq([i \in 1..Len(flags) |-> i], LAMBDA i : flags[i])
    IN  [k \in 1..Len(fired) |-> names[fired[k]]]

\* SignalGenerator._evaluate_buy
EvaluateBuy(i) ==
    LET golden_cross == /\ i.prev_short # NoEma
                        /\ i.prev_long # NoEma
                        /\ i.prev_short <= i.prev_long
                        /\ i.ema_short > i.ema_long
        rsi_ok == rsi_buy_min <= i.rsi /\ i.rsi <= rsi_buy_max
        volume_ok == i.volume_ratio >= i.volume_ratio_threshold
        reasons == Reasons(<<golden_cross, rsi_ok, volume_ok>>,
                           <<"EMA golden cross", "RSI filter passed", "volume increase">>)
        span == rsi_buy_max - rsi_buy_min
    IN  IF ~(golden_cross /\ rsi_ok /\ volume_ok) THEN Hold
        \* (ema_short - ema_long) / ema_long, (rsi - rsi_buy_min) / span and
        \* volume_ratio / volume_ratio_threshold: a zero divisor raises
        ELSE IF i.ema_long = 0 \/ span = 0 \/ i.volume_ratio_threshold = 0 THEN Raised
        ELSE LET c1 == RoundHalfEven((i.ema_short - i.ema_long) * StrengthUnit, i.ema_long)
                 c2 == RoundHalfEven((i.rsi - rsi_buy_min) * StrengthUnit, span)
                 c3 == Min(RoundHalfEven(i.volume_ratio * StrengthUnit,
                                         i.volume_ratio_threshold), 2 * StrengthUnit)
             IN  BuildDecision("BUY", RoundHalfEven(c1 + c2 + c3, 3), reasons)

\* rsi <= rsi_sell_threshold or rsi >= rsi_overbought
RsiConfirm_SellThresholdOnly(rsi) == rsi <= rsi_sell_threshold

RsiConfirm(rsi) == rsi <= rsi_sell_threshold \/ rsi >= rsi_overbought

\* SignalGenerator._evaluate_sell
EvaluateSell(i) ==
    LET death_cross == /\ i.prev_short # NoEma
                       /\ i.prev_long # NoEma
                       /\ i.prev_short >= i.prev_long
                       /\ i.ema_short < i.ema_long
        \* price >= position_avg * (1 + target_profit_pct)
        target_hit == i.price * 100 >= i.position_avg * (100 + target_profit_pct)
        \* price <= position_avg * (1 - stop_loss_pct)
        stop_hit == i.price * 100 <= i.position_avg * (100 - stop_loss_pct)
        trailing_trigger == i.price <= i.recent_high - i.atr * trailing_atr_multiplier
        rsi_confirm == RsiConfirm(i.rsi)
        triggered == <<death_cross, target_hit, stop_hit, trailing_trigger, rsi_confirm>>
        reasons == Reasons(triggered,
                           <<"EMA death cross", "target profit reached", "stop loss hit",
                             "ATR trailing stop", "RSI exit signal">>)
    IN  IF Len(reasons) = 0 THEN Hold
        ELSE BuildDecision("SELL", (Len(reasons) * StrengthUnit) \div Len(triggered), reasons)

\* SignalGenerator.generate without a position of the symbol: _evaluate_buy
GenerateFlat ==
    /\ decision = NoDecision
    /\ ~signal_input.has_position
    /\ decision' = EvaluateBuy(signal_input)
    /\ UNCHANGED signal_input
    /\ UNCHANGED <<pvars, ovars, evars, cvars, wvars>>

\* SignalGenerator.generate with a position of the symbol: _evaluate_sell
GenerateHeld ==
    /\ decision = NoDecision
    /\ signal_input.has_position
    /\ decision' = EvaluateSell(signal_input)
    /\ UNCHANGED signal_input
    /\ UNCHANGED <<pvars, ovars, evars, cvars, wvars>>

\* the indicator values of the runs
EmaValues == {100, 101}
PrevEmaValues == {NoEma, 100, 101}

\* inputs without a position: RSI around the buy band, volume ratios around
\* the threshold 0.8, and a threshold of 0
FlatInputs ==
    [has_position : {FALSE}, price : {100}, ema_short : EmaValues, ema_long : EmaValues,
     prev_short : PrevEmaValues, prev_long : PrevEmaValues, rsi : {49, 50, 60, 70, 71},
     atr : {1}, volume_ratio : {0, 7, 8, 20}, volume_ratio_threshold : {8, 0},
     position_avg : {0}, recent_high : {100}]

\* inputs with a position bought at 100: prices at the stop (97), between and
\* at the target (102), trailing levels 102 and 98, RSI at both exit bounds
HeldInputs ==
    [has_position : {TRUE}, price : {97, 100, 102}, ema_short : EmaValues,
     ema_long : EmaValues, prev_short : PrevEmaValues, prev_long : PrevEmaValues,
     rsi : {45, 60, 70}, atr : {1, 3}, volume_ratio : {8}, volume_ratio_threshold : {8},
     position_avg : {100}, recent_high : {104}]

\* the arguments generate hands to _evaluate_buy / _evaluate_sell
SignalInit ==
    /\ signal_input \in FlatInputs \cup HeldInputs
    /\ decision = NoDecision

\* no call of generate
SignalIdle ==
    /\ signal_input = CHOOSE i \in HeldInputs : TRUE
    /\ decision = Hold

----------------------------------------------------------------------------
(* Part VI: RiskManager *)

\* Equity, prices, ATR and held quantities are whole numbers; amounts, stop
\* levels and sized quantities are in units of 1/RiskUnit.  Percentages and
\* the Kelly win rate are in hundredths, the Kelly reward/risk ratio in tenths.
RiskUnit == Pow10(2)

\* an Optional[Decimal]: None, or the value
None == <<>>
Some(value) == <<value>>

\* StrategyParameters(): the fields validate, generate and the RiskManager read,
\* at their defaults
DefaultParameters ==
    [atr_multiplier |-> 2, trailing_atr_multiplier |-> trailing_atr_multiplier,
     stop_loss_pct |-> stop_loss_pct, target_profit_pct |-> target_profit_pct,
     partial_take_profit_pct |-> 1, max_concurrent_positions |-> 5,
     max_risk_per_trade |-> 3, capital_allocation_per_position |-> 4,
     kelly_win_rate |-> 55, kelly_reward_risk |-> 18, correlation_threshold |-> 80,
     short_ema_period |-> 20, long_ema_period |-> 60, rsi_period |-> 14,
     atr_period |-> 14, volume_ma_period |-> 10,
     rsi_buy_min |-> rsi_buy_min, rsi_buy_max |-> rsi_buy_max]

\* RiskManager.can_open_new_position
CanOpenNewPosition(params, open_positions) ==
    open_positions < params.max_concurrent_positions

\* RiskManager.correlation_score >= correlation_threshold, the score being
\* 0 without open positions and open / max_concurrent_positions otherwise
Crowded_Above(params, open_positions) ==
    IF open_positions = 0 THEN 0 > params.correlation_threshold
    ELSE open_positions * 100 > params.correlation_threshold * params.max_concurrent_positions

Crowded(params, open_positions) ==
    IF open_positions = 0 THEN 0 >= params.correlation_threshold
    ELSE open_positions * 100 >= params.correlation_threshold * params.max_concurrent_positions

\* win_rate - (1 - win_rate) / reward_risk, in hundredths
KellyFraction(params) ==
    params.kelly_win_rate - RoundHalfEven((100 - params.kelly_win_rate) * 10, params.kelly_reward_risk)

\* max(price * stop_loss_pct, (atr or 0) * atr_multiplier)
UnitRisk(params, price, atr) ==
    Max(price * params.stop_loss_pct, atr * params.atr_multiplier * RiskUnit)

\* RiskManager.calculate_position_size
CalculatePositionSize(params, equity, price, atr) ==
    LET kelly_fraction == Max(KellyFraction(params), 0)
        kelly_amount == equity * kelly_fraction
        risk_cap == equity * params.max_risk_per_trade
        capital_cap == equity * params.capital_allocation_per_position
        allocation == Min(Min(capital_cap, risk_cap),
                          IF kelly_amount > 0 THEN kelly_amount ELSE capital_cap)
        unit_risk == UnitRisk(params, price, atr)
    IN  IF allocation <= 0 THEN 0
        ELSE IF unit_risk = 0 THEN 0
        ELSE RoundHalfEven(allocation * RiskUnit, unit_risk)

\* RiskManager.determine_stop_levels: position is None or the held position
DetermineStopLevels(params, price, atr, position) ==
    LET anchor == IF position # None THEN position[1].avg_price ELSE price
        atr_component == atr * params.atr_multiplier * RiskUnit
        trailing_component == atr * params.trailing_atr_multiplier * RiskUnit
    IN  [stop_loss |-> Some(anchor * RiskUnit - Max(anchor * params.stop_loss_pct, atr_component)),
         take_profit |-> Some(anchor * RiskUnit + anchor * params.target_profit_pct),
         partial_take_profit |-> Some(anchor * RiskUnit + anchor * params.partial_take_profit_pct),
         trailing_stop |-> IF trailing_component > 0
                           THEN Some(price * RiskUnit - trailing_component) ELSE None]

\* RiskAssessment(quantity, notional, risk_amount, the four levels)
RiskAssessment(quantity, notional, risk_amount, levels) ==
    [quantity |-> quantity, notional |-> notional, risk_amount |-> risk_amount,
     stop_loss |-> levels.stop_loss, take_profit |-> levels.take_profit,
     trailing_stop |-> levels.trailing_stop,
     partial_take_profit |-> levels.partial_take_profit]

\* the assessment of a refused entry and of an exit without a position
Refused ==
    RiskAssessment(0, 0, 0, [stop_loss |-> None, take_profit |-> None,
                             trailing_stop |-> None, partial_take_profit |-> None])

\* assess with a HOLD signal answered as a refusal, whatever is held
Assess_HoldRefused(a) ==
    IF a.signal_type = "BUY"
    THEN IF ~CanOpenNewPosition(a.params, a.open_positions) THEN Refused
         ELSE IF Crowded(a.params, a.open_positions) THEN Refused
         ELSE LET quantity == CalculatePositionSize(a.params, a.equity, a.price, a.atr)
              IN  RiskAssessment(quantity, quantity * a.price,
                                 RoundHalfEven(quantity * a.price * a.params.stop_loss_pct, 100),
                                 DetermineStopLevels(a.params, a.price, a.atr, None))
    ELSE IF a.position = None \/ a.signal_type = "HOLD" THEN Refused
    ELSE LET position == a.position[1]
             levels == DetermineStopLevels(a.params, a.price, a.atr, a.position)
             \* stop_loss or position.avg_price: a stop level of 0 is falsy
             stop == IF levels.stop_loss[1] # 0 THEN levels.stop_loss[1]
                     ELSE position.avg_price * RiskUnit
         IN  RiskAssessment(position.quantity * RiskUnit,
                            position.quantity * a.price * RiskUnit,
                            position.quantity * Max(position.avg_price * RiskUnit - stop, 0),
                            levels)

\* RiskManager.assess.  a.atr is (atr or 0); a.position is portfolio.get(symbol)
Assess(a) ==
    IF a.signal_type = "BUY"
    THEN IF ~CanOpenNewPosition(a.params, a.open_positions) THEN Refused
         ELSE IF Crowded(a.params, a.open_positions) THEN Refused
         ELSE LET quantity == CalculatePositionSize(a.params, a.equity, a.price, a.atr)
              IN  RiskAssessment(quantity, quantity * a.price,
                                 RoundHalfEven(quantity * a.price * a.params.stop_loss_pct, 100),
                                 DetermineStopLevels(a.params, a.price, a.atr, None))
    ELSE IF a.position = None THEN Refused
    ELSE LET position == a.position[1]
             levels == DetermineStopLevels(a.params, a.price, a.atr, a.position)
             \* stop_loss or position.avg_price: a stop level of 0 is falsy
             stop == IF levels.stop_loss[1] # 0 THEN levels.stop_loss[1]
                     ELSE position.avg_price * RiskUnit
         IN  RiskAssessment(position.quantity * RiskUnit,
                            position.quantity * a.price * RiskUnit,
                            position.quantity * Max(position.avg_price * RiskUnit - stop, 0),
                            levels)

\* the parameter sets of the runs: the defaults, a Kelly fraction that is not
\* positive (0.30 - 0.70 / 1.0), and limits of one position and of no crowding
RiskParameterSets ==
    {DefaultParameters,
     [DefaultParameters EXCEPT !.kelly_win_rate = 30, !.kelly_reward_risk = 10],
     [DefaultParameters EXCEPT !.max_concurrent_positions = 1],
     [DefaultParameters EXCEPT !.correlation_threshold = 100]}

\* the arguments of the runs: ATR absent, small, and large enough for a stop
\* level of 0; portfolios below, at and above the crowding and position limits
RiskInputs ==
    {a \in [signal_type : {"BUY", "SELL", "HOLD"}, equity : {1000}, price : {100, 200},
            atr : {0, 1, 50}, open_positions : 0..MaxOpenPositions,
            position : {None, Some([quantity |-> 2, avg_price |-> 100])},
            params : RiskParameterSets] :
        a.position # None => a.open_positions > 0}

\* RiskManager(parameters): no call yet
RiskInit == risk_calls = <<>>

\* one call of assess
AssessCall(a) ==
    /\ risk_calls = <<>>
    /\ risk_calls' = <<[args |-> a, assessment |-> Assess(a)]>>
    /\ UNCHANGED <<pvars, ovars, evars, cvars, svars, zvars, pair_calls, series, tvars>>

----------------------------------------------------------------------------
(* Part VII: PerformanceAnalyzer._create_trade_pairs *)

\* no call yet
PairsInit == pair_calls = <<>>

\* sorted(trades, key=timestamp): the indexes of the trades by timestamp, those
\* of equal timestamps in the order of the list (the sort is stable)
RECURSIVE SortedByTimestamp(_, _)
SortedByTimestamp(trade_list, rest) ==
    IF rest = {} THEN <<>>
    ELSE LET k == CHOOSE k \in rest :
                      \A m \in rest :
                          \/ trade_list[k].timestamp < trade_list[m].timestamp
                          \/ trade_list[k].timestamp = trade_list[m].timestamp /\ k <= m
         IN  <<k>> \o SortedByTimestamp(trade_list, rest \ {k})

\* one pass of the loop of _create_trade_pairs over the trade of index k.
\* lots: positions, symbol -> the indexes of its buy trades; quantity: the
\* 'quantity' of every trade dict, which the loop changes in place
PairTrade(trade_list, k, st) ==
    LET trade == trade_list[k]
        symbol == trade.symbol
    IN  IF trade.side = "buy"
        THEN [st EXCEPT !.lots[symbol] = Append(@, k)]
        ELSE IF st.lots[symbol] = <<>> THEN st
        ELSE LET b == Head(st.lots[symbol])
                 buy_trade == trade_list[b]
                 quantity == Min(trade.quantity, st.quantity[b])
                 buy_cost == quantity * buy_trade.price + buy_trade.commission
                 sell_proceeds == quantity * trade.price - trade.commission
                 pair == [symbol |-> symbol, buy_price |-> buy_trade.price,
                          sell_price |-> trade.price, quantity |-> quantity,
                          pnl |-> sell_proceeds - buy_cost,
                          duration_days |-> trade.timestamp - buy_trade.timestamp,
                          buy_time |-> buy_trade.timestamp, sell_time |-> trade.timestamp]
             IN  IF st.quantity[b] > quantity
                 THEN [st EXCEPT !.pairs = Append(@, pair), !.quantity[b] = @ - quantity]
                 ELSE [st EXCEPT !.pairs = Append(@, pair), !.lots[symbol] = Tail(@)]

\* the loop of _create_trade_pairs over the sorted trades
RECURSIVE PairTrades(_, _, _)
PairTrades(trade_list, order, st) ==
    IF order = <<>> THEN st
    ELSE PairTrades(trade_list, Tail(order), PairTrade(trade_list, Head(order), st))

\* PerformanceAnalyzer._create_trade_pairs(trades): the pairs, and the trade
\* dicts of the caller as the call leaves them
CreateTradePairs(trade_list) ==
    LET st == PairTrades(trade_list, SortedByTimestamp(trade_list, DOMAIN trade_list),
                         [lots |-> [s \in Symbols |-> <<>>],
                          quantity |-> [k \in DOMAIN trade_list |-> trade_list[k].quantity],
                          pairs |-> <<>>])
    IN  [pairs |-> st.pairs,
         trades |-> [k \in DOMAIN trade_list |->
                        [trade_list[k] EXCEPT !.quantity = st.quantity[k]]]]

\* the trades of the runs: buys at 100 and 120, sells at 130, timestamps in days
TradeKinds ==
    {t \in [symbol : Symbols, side : Sides, quantity : FillQtys, price : {100, 120, 130},
            commission : Commissions, timestamp : 1..2] :
        t.side = "sell" <=> t.price = 130}

TradeLists == UNION {[1..n -> TradeKinds] : n \in 0..MaxTrades}

\* one call of _create_trade_pairs
CreateTradePairsCall(trade_list) ==
    /\ pair_calls = <<>>
    /\ pair_calls' = <<[args |-> trade_list, result |-> CreateTradePairs(trade_list)]>>
    /\ UNCHANGED <<pvars, ovars, evars, cvars, svars, zvars, risk_calls, series, tvars>>

----------------------------------------------------------------------------
(* Part VIII: CandleSeries *)

\* CandleSeries(symbol): no candles
CandleSeriesInit == series = <<>>

\* CandleSeries.symbol
SeriesSymbol == "BTC_KRW"

\* CandleSeries.append on the list s: the ValueError of a foreign symbol is
\* marked by raised; otherwise the candle is appended and the list sorted by
\* timestamp, candles of equal timestamps keeping their order (a stable sort)
AppendTo(s, candle) ==
    IF candle.symbol # SeriesSymbol THEN [candles |-> s, raised |-> TRUE]
    ELSE LET appended == Append(s, candle)
             order == SortedByTimestamp(appended, DOMAIN appended)
         IN  [candles |-> [k \in DOMAIN appended |-> appended[order[k]]], raised |-> FALSE]

\* CandleSeries.extend on the list s: append after append, up to the first
\* one that raises
RECURSIVE ExtendTo(_, _)
ExtendTo(s, candles) ==
    IF candles = <<>> THEN s
    ELSE LET a == AppendTo(s, Head(candles))
         IN  IF a.raised THEN a.candles ELSE ExtendTo(a.candles, Tail(candles))

\* the candles of the runs: of the symbol of the series and of another one
CandleKinds == [symbol : Symbols, timestamp : 1..3, close : Closes]

\* CandleSeries.append(candle)
AppendCandle(candle) ==
    /\ Len(series) < MaxCandles
    /\ series' = AppendTo(series, candle).candles
    /\ UNCHANGED <<pvars, ovars, evars, cvars, svars, zvars, risk_calls, pair_calls, tvars>>

\* CandleSeries.extend(candles)
ExtendCandles(candles) ==
    /\ Len(series) + Len(candles) <= MaxCandles
    /\ series' = ExtendTo(series, candles)
    /\ UNCHANGED <<pvars, ovars, evars, cvars, svars, zvars, risk_calls, pair_calls, tvars>>

----------------------------------------------------------------------------
(* Part IX: StrategyParameterStore and StrategyEngine *)

\* StrategyParameters.validate: TRUE when it returns, FALSE when it raises
Validate(params) ==
    /\ ~(params.short_ema_period <= 0 \/ params.long_ema_period <= 0)
    /\ ~(params.short_ema_period >= params.long_ema_period)
    /\ ~(params.rsi_period <= 1)
    /\ ~(params.rsi_buy_min >= params.rsi_buy_max)
    /\ 0 < params.max_risk_per_trade /\ params.max_risk_per_trade <= 10
    /\ ~(params.max_concurrent_positions <= 0)
    /\ 0 <= params.correlation_threshold /\ params.correlation_threshold <= 100

\* SignalDecision: the decision of the rules with the price and the indicators
Decision(d, price, rsi, atr, volume_ratio) ==
    [signal_type |-> d.signal_type, strength |-> d.strength, reasons |-> d.reasons,
     price |-> price, rsi |-> rsi, atr |-> atr, volume_ratio |-> volume_ratio]

\* _ensure_length raises in one of the indicator computations of generate
IndicatorsFail(candles, params) ==
    \/ candles < params.short_ema_period
    \/ candles < params.long_ema_period
    \/ candles < params.rsi_period + 1
    \/ candles < params.atr_period + 1
    \/ candles < params.volume_ma_period

\* SignalGenerator.generate on `candles` candles whose indicators are those of i
Generate(candles, i, params) ==
    IF candles = 0 THEN Decision(Raised, NoPrice, None, None, None)
    ELSE IF IndicatorsFail(candles, params) THEN Decision(Hold, i.price, None, None, None)
    ELSE LET \* _compute_previous_ema: None unless len(candles) > period
             j == [i EXCEPT !.prev_short = IF candles <= params.short_ema_period
                                           THEN NoEma ELSE @,
                            !.prev_long = IF candles <= params.long_ema_period
                                          THEN NoEma ELSE @]
             d == IF j.has_position THEN EvaluateSell(j) ELSE EvaluateBuy(j)
         IN  Decision(d, i.price, Some(i.rsi), Some(i.atr), Some(i.volume_ratio))

\* StrategyParameterStore.get_parameters loads from the database
Reloads == param_cache = 0 \/ ~cache_fresh

\* the StrategyParameters objects after get_parameters, and the one it returns
LoadedObjects == IF Reloads THEN Append(param_objects, config_record) ELSE param_objects
LoadedRef == IF Reloads THEN Len(param_objects) + 1 ELSE param_cache

\* StrategyParameterStore.get_parameters, called from outside the engine
GetParameters ==
    /\ Len(strategy_log) < MaxStrategyCalls
    /\ Reloads => Len(param_objects) < MaxObjects
    /\ param_objects' = LoadedObjects
    /\ param_cache' = LoadedRef
    /\ cache_fresh' = TRUE
    /\ strategy_log' = Append(strategy_log,
                              [op |-> "get_parameters", ref |-> LoadedRef,
                               params |-> LoadedObjects[LoadedRef]])
    /\ UNCHANGED <<config_record, risk_parameters, signal_rows>>
    /\ UNCHANGED <<pvars, ovars, evars, cvars, svars, zvars, risk_calls, pair_calls, series>>

\* StrategyParameters(field=value): the constructor does not validate
NewParameters(field, value) ==
    /\ Len(param_objects) < MaxObjects
    /\ param_objects' = Append(param_objects, [DefaultParameters EXCEPT ![field] = value])
    /\ UNCHANGED <<param_cache, cache_fresh, config_record, risk_parameters, signal_rows,
                   strategy_log>>
    /\ UNCHANGED <<pvars, ovars, evars, cvars, svars, zvars, risk_calls, pair_calls, series>>

\* params.field = value on an object the caller holds
SetField(ref, field, value) ==
    /\ ref \in DOMAIN param_objects
    /\ param_objects[ref][field] # value
    /\ param_objects' = [param_objects EXCEPT ![ref][field] = value]
    /\ UNCHANGED <<param_cache, cache_fresh, config_record, risk_parameters, signal_rows,
                   strategy_log>>
    /\ UNCHANGED <<pvars, ovars, evars, cvars, svars, zvars, risk_calls, pair_calls, series>>

\* StrategyParameterStore.update_parameters(session, params)
UpdateParameters(ref) ==
    /\ Len(strategy_log) < MaxStrategyCalls
    /\ ref \in DOMAIN param_objects
    /\ IF Validate(param_objects[ref])
       THEN /\ config_record' = param_objects[ref]
            /\ param_cache' = ref
            /\ cache_fresh' = TRUE
            /\ strategy_log' = Append(strategy_log,
                                      [op |-> "update_parameters", ref |-> ref,
                                       outcome |-> "returned"])
       ELSE /\ strategy_log' = Append(strategy_log,
                                      [op |-> "update_parameters", ref |-> ref,
                                       outcome |-> "raised"])
            /\ UNCHANGED <<config_record, param_cache, cache_fresh>>
    /\ UNCHANGED <<param_objects, risk_parameters, signal_rows>>
    /\ UNCHANGED <<pvars, ovars, evars, cvars, svars, zvars, risk_calls, pair_calls, series>>

\* the clock passes _cache_expire_at
Expire ==
    /\ cache_fresh
    /\ cache_fresh' = FALSE
    /\ UNCHANGED <<param_objects, param_cache, config_record, risk_parameters, signal_rows,
                   strategy_log>>
    /\ UNCHANGED <<pvars, ovars, evars, cvars, svars, zvars, risk_calls, pair_calls, series>>

\* the arguments evaluate hands to RiskManager.assess
AssessArgs(signal, i, params) ==
    [signal_type |-> signal.signal_type, equity |-> 1000, price |-> signal.price,
     atr |-> IF signal.atr = None THEN 0 ELSE signal.atr[1],
     open_positions |-> IF i.has_position THEN 1 ELSE 0,
     position |-> IF i.has_position
                  THEN Some([quantity |-> 2, avg_price |-> i.position_avg]) ELSE None,
     params |-> params]

\* evaluate calls _persist_signal: decision.signal_type != SignalType.HOLD
Persists_Always(signal_type) == TRUE

Persists(signal_type) == signal_type # "HOLD"

\* StrategyEngine.evaluate up to its return or to the exception that leaves it:
\* validated is FALSE when RiskManager.update_parameters raises, recorded is
\* TRUE when _persist_signal has stored the signal
Evaluation(candles, i, stores) ==
    LET params == LoadedObjects[LoadedRef]
        signal == Generate(candles, i, params)
        assessment == Assess(AssessArgs(signal, i, params))
    IN  IF ~Validate(params)
        THEN [outcome |-> "raised", validated |-> FALSE, recorded |-> FALSE,
              signal |-> Decision(NoDecision, NoPrice, None, None, None), risk |-> Refused]
        ELSE IF signal.signal_type = "RAISED"
        THEN [outcome |-> "raised", validated |-> TRUE, recorded |-> FALSE,
              signal |-> signal, risk |-> Refused]
        ELSE IF Persists(signal.signal_type) /\ ~stores
        THEN [outcome |-> "raised", validated |-> TRUE, recorded |-> FALSE,
              signal |-> signal, risk |-> assessment]
        ELSE [outcome |-> "returned", validated |-> TRUE,
              recorded |-> Persists(signal.signal_type),
              signal |-> signal, risk |-> assessment]

\* StrategyEngine.evaluate(context); stores: the signal repository and the
\* session work when _persist_signal uses them
Evaluate(candles, i, stores) ==
    LET e == Evaluation(candles, i, stores)
    IN  /\ Len(strategy_log) < MaxStrategyCalls
        /\ Reloads => Len(param_objects) < MaxObjects
        /\ param_objects' = LoadedObjects
        /\ param_cache' = LoadedRef
        /\ cache_fresh' = TRUE
        /\ risk_parameters' = IF e.validated THEN LoadedRef ELSE risk_parameters
        /\ signal_rows' = IF e.recorded THEN Append(signal_rows, e.signal.signal_type)
                          ELSE signal_rows
        /\ strategy_log' = Append(strategy_log,
                                  [op |-> "evaluate", candles |-> candles, input |-> i,
                                   stores |-> stores, params |-> LoadedObjects[LoadedRef],
                                   outcome |-> e.outcome,
                                   signal |-> e.signal, risk |-> e.risk])
        /\ UNCHANGED config_record
        /\ UNCHANGED <<pvars, ovars, evars, cvars, svars, zvars, risk_calls, pair_calls, series>>

\* the lengths of the candle sequences: empty, too short, and long enough
CandleCounts == {0, 5, 61}

\* the indicator values of the evaluations: one input of every decision
StrategyInputs ==
    {i \in FlatInputs \cup HeldInputs :
        /\ i.ema_short = 101 /\ i.ema_long = 100
        /\ i.prev_short = 100 /\ i.prev_long = 100
        /\ i.volume_ratio_threshold = 8
        /\ i.has_position => (i.price \in {97, 100} /\ i.rsi = 60 /\ i.atr = 3)
        /\ ~i.has_position => (i.rsi \in {49, 60} /\ i.volume_ratio = 20)}

\* the field assignments of the callers: a valid and two invalid ones
Assignments ==
    {<<"max_risk_per_trade", 2>>, <<"max_risk_per_trade", 20>>,
     <<"max_concurrent_positions", 0>>}

\* StrategyEngine(session_factory) on an empty database: get_parameters has
\* stored and cached the defaults, the RiskManager holds the same object
StrategyInit ==
    /\ param_objects = <<DefaultParameters>>
    /\ param_cache = 1
    /\ cache_fresh = TRUE
    /\ config_record = DefaultParameters
    /\ risk_parameters = 1
    /\ signal_rows = <<>>
    /\ strategy_log = <<>>

----------------------------------------------------------------------------
(* Part X: OrderManager position sync *)

\* the accounts the venue lists, in the order get_accounts returns them
Currencies == <<"KRW", "BTC", "ETH">>
Coins == {"BTC", "ETH"}
\* symbol = f"{currency}_KRW"
SyncSymbol(currency) == IF currency = "BTC" THEN "BTC_KRW" ELSE "ETH_KRW"

\* the threads that run _sync_positions: the caller of start() and the
\* monitor thread (_monitor_orders)
SyncThreads == {"caller", "monitor"}

\* where a thread stands when it is not inside _sync_positions
Outside(t) == IF t = "caller" THEN "returned" ELSE "idle"
\* where it stands before it calls _sync_positions
Before(t) == IF t = "caller" THEN "start" ELSE "idle"
\* inside _sync_positions: at the head of the loop over the accounts, before
\* the test 'symbol in self._positions', before the write of the position
InSync == {"loop", "lookup", "store"}

\* what client.get_accounts may answer
AccountAnswers == {"listed", "empty", "raises"}
\* what client.get_ticker may answer: a closing price, nothing, an exception
TickerAnswers ==
    { [raises |-> FALSE, closing_price |-> 100],
      [raises |-> FALSE, closing_price |-> NoPrice],
      [raises |-> TRUE, closing_price |-> NoPrice] }

\* the locals of a thread that is not inside _sync_positions; answered: the
\* venue has answered every call of the sync, notified: the calls of the
\* observers the sync has made
NoFrame ==
    [accounts |-> [c \in Coins |-> 0], index |-> 0, current_price |-> NoPrice,
     found |-> FALSE, answered |-> TRUE, notified |-> <<>>]

\* how often observer o was called with the position of symbol s
NotifiedCount(n, s, o) == IF <<s, o>> \in DOMAIN n THEN n[<<s, o>>] ELSE 0

\* _notify_position_update: every callback is called once; one that raises is
\* logged and the loop goes on
NotifyPositionUpdate(n, s, callbacks) ==
    LET called == {<<s, o>> : o \in 1..callbacks}
    IN  [k \in DOMAIN n \cup called |->
            IF k \in called THEN NotifiedCount(n, k[1], k[2]) + 1 ELSE n[k]]

\* OrderManager.add_position_update_callback; the observers of the runs
\* register before start()
AddPositionUpdateCallback ==
    /\ ~running
    /\ position_update_callbacks < MaxObservers
    /\ position_update_callbacks' = position_update_callbacks + 1
    /\ UNCHANGED <<live_positions, exchange, sync_pc, sync_frame>>
    /\ UNCHANGED <<pvars, ovars, evars, cvars, svars, risk_calls, pair_calls, series, tvars>>

\* a deposit, a withdrawal or a trade made outside the manager
ExchangeChange(currency, balance) ==
    /\ exchange[currency] # balance
    /\ exchange' = [exchange EXCEPT ![currency] = balance]
    /\ UNCHANGED <<live_positions, sync_pc, sync_frame, position_update_callbacks>>
    /\ UNCHANGED <<pvars, ovars, evars, cvars, svars, risk_calls, pair_calls, series, tvars>>

\* _sync_positions is called, by start() after it has started the threads or
\* by the loop of _monitor_orders while the manager runs: get_accounts
SyncAccounts(t, answer) ==
    /\ running
    /\ sync_pc[t] = Before(t)
    /\ IF answer = "listed"
       THEN /\ sync_frame' = [sync_frame EXCEPT ![t] =
                                 [NoFrame EXCEPT !.accounts = exchange, !.index = 1]]
            /\ sync_pc' = [sync_pc EXCEPT ![t] = "loop"]
       ELSE /\ sync_frame' = [sync_frame EXCEPT ![t] = NoFrame]
            /\ sync_pc' = [sync_pc EXCEPT ![t] = Outside(t)]
    /\ UNCHANGED <<live_positions, exchange, position_update_callbacks>>
    /\ UNCHANGED <<pvars, ovars, evars, cvars, svars, risk_calls, pair_calls, series, tvars>>

\* _sync_positions: the next account; KRW and an empty balance are passed
\* over, for any other get_ticker is called
SyncTicker(t, answer) ==
    /\ sync_pc[t] = "loop"
    /\ sync_frame[t].index <= Len(Currencies)
    /\ LET frame == sync_frame[t]
           currency == Currencies[frame.index]
       IN  IF currency = "KRW" \/ frame.accounts[currency] <= 0
           THEN /\ sync_frame' = [sync_frame EXCEPT ![t].index = @ + 1]
                /\ UNCHANGED sync_pc
           ELSE IF answer.raises
           THEN /\ sync_frame' = [sync_frame EXCEPT ![t] = NoFrame]
                /\ sync_pc' = [sync_pc EXCEPT ![t] = Outside(t)]
           ELSE IF answer.closing_price = NoPrice
           THEN /\ sync_frame' = [sync_frame EXCEPT ![t].index = @ + 1,
                                                    ![t].answered = FALSE]
                /\ UNCHANGED sync_pc
           ELSE /\ sync_frame' = [sync_frame EXCEPT ![t].current_price = answer.closing_price]
                /\ sync_pc' = [sync_pc EXCEPT ![t] = "lookup"]
    /\ UNCHANGED <<live_positions, exchange, position_update_callbacks>>
    /\ UNCHANGED <<pvars, ovars, evars, cvars, svars, risk_calls, pair_calls, series, tvars>>

\* _sync_positions: if symbol in self._positions
SyncLookup(t) ==
    /\ sync_pc[t] = "lookup"
    /\ sync_frame' = [sync_frame EXCEPT ![t].found =
                         SyncSymbol(Currencies[sync_frame[t].index]) \in DOMAIN live_positions]
    /\ sync_pc' = [sync_pc EXCEPT ![t] = "store"]
    /\ UNCHANGED <<live_positions, exchange, position_update_callbacks>>
    /\ UNCHANGED <<pvars, ovars, evars, cvars, svars, risk_calls, pair_calls, series, tvars>>

\* the position _sync_positions leaves for a symbol: the one it found, with
\* the balance and the price written into it, or a new one at the price
SyncedPosition(found, old, balance, current_price) ==
    IF found
    THEN [old EXCEPT !.quantity = balance,
                     !.market_price = current_price,
                     !.unrealized_pnl = (current_price - old.average_price) * balance]
    ELSE [quantity |-> balance, average_price |-> current_price,
          market_price |-> current_price, unrealized_pnl |-> 0]

\* _sync_positions: the position is updated or created, and notified
SyncStore(t) ==
    /\ sync_pc[t] = "store"
    /\ LET frame == sync_frame[t]
           currency == Currencies[frame.index]
           symbol == SyncSymbol(currency)
           position == SyncedPosition(frame.found,
                                      IF frame.found THEN live_positions[symbol] ELSE <<>>,
                                      frame.accounts[currency], frame.current_price)
       IN  /\ live_positions' = [s \in DOMAIN live_positions \cup {symbol} |->
                                    IF s = symbol THEN position ELSE live_positions[s]]
           /\ sync_frame' = [sync_frame EXCEPT
                                 ![t].index = @ + 1,
                                 ![t].notified = NotifyPositionUpdate(@, symbol,
                                                     position_update_callbacks)]
    /\ sync_pc' = [sync_pc EXCEPT ![t] = "loop"]
    /\ UNCHANGED <<exchange, position_update_callbacks>>
    /\ UNCHANGED <<pvars, ovars, evars, cvars, svars, risk_calls, pair_calls, series, tvars>>

\* _sync_positions returns after the last account
SyncReturn(t) ==
    /\ sync_pc[t] = "loop"
    /\ sync_frame[t].index > Len(Currencies)
    /\ sync_pc' = [sync_pc EXCEPT ![t] = Outside(t)]
    /\ sync_frame' = [sync_frame EXCEPT ![t] = NoFrame]
    /\ UNCHANGED <<live_positions, exchange, position_update_callbacks>>
    /\ UNCHANGED <<pvars, ovars, evars, cvars, svars, risk_calls, pair_calls, series, tvars>>

\* OrderManager.__init__, with the balances of the venue
SyncInit ==
    /\ live_positions = <<>>
    /\ exchange = [c \in Coins |-> IF c = "BTC" THEN 1 ELSE 0]
    /\ sync_pc = [t \in SyncThreads |-> Before(t)]
    /\ sync_frame = [t \in SyncThreads |-> NoFrame]
    /\ position_update_callbacks = 0

----------------------------------------------------------------------------
(* Specifications *)

\* the RiskManager, the analyzer, the CandleSeries and the StrategyEngine before any call
ServicesInit == RiskInit /\ PairsInit /\ CandleSeriesInit /\ StrategyInit /\ SyncInit

Init ==
    PortfolioInit /\ OrderManagerInit /\ EngineInit /\ CacheInit /\ SignalIdle /\ ServicesInit

\* the Portfolio driven through fills only
PositionSpec == Init /\ [][PositionNext]_vars

\* the Portfolio driven through fills of any non-negative quantity
NetQuantitySpec == Init /\ [][NetQuantityNext]_vars

\* start(), the position syncs of the caller and of the monitor thread, the
\* venue's balances and the position observers
SyncNext ==
    \/ Start
    \/ AddPositionUpdateCallback
    \/ \E currency \in Coins, balance \in 0..MaxBalance : ExchangeChange(currency, balance)
    \/ \E t \in SyncThreads, answer \in AccountAnswers : SyncAccounts(t, answer)
    \/ \E t \in SyncThreads, answer \in TickerAnswers : SyncTicker(t, answer)
    \/ \E t \in SyncThreads : SyncLookup(t)
    \/ \E t \in SyncThreads : SyncStore(t)
    \/ \E t \in SyncThreads : SyncReturn(t)

SyncSpec == Init /\ [][SyncNext]_vars

\* the Portfolio driven through fills, market-price updates and equity samples
PortfolioSpec == Init /\ [][PortfolioNext]_vars

\* the scheduler: submissions, the clock, the venue and one worker
SchedulerNext ==
    \/ \E sub \in SchedulerSubmissions : SubmitOrder(sub[1], sub[2])
    \/ Start
    \/ \E w \in Threads : WorkerCheck(w)
    \/ \E w \in Threads : WorkerGet(w)
    \/ \E w \in Threads : ProcessOrder(w)
    \/ Tick
    \/ \E v \in VenueStates : VenueChange(v)

SchedulerSpec == Init /\ [][SchedulerNext]_vars

\* the order lifecycle: one worker, cancellations and observers
LifecycleNext ==
    \/ \E sub \in LifecycleSubmissions : SubmitOrder(sub[1], sub[2])
    \/ \E order_id \in CancelIds, accepted \in BOOLEAN : CancelOrder(order_id, accepted)
    \/ AddOrderUpdateCallback
    \/ Start
    \/ \E w \in Threads : WorkerCheck(w)
    \/ \E w \in Threads : WorkerGet(w)
    \/ \E w \in Threads : ProcessOrder(w)

LifecycleSpec == Init /\ [][LifecycleNext]_vars

\* stop() and start() around a worker that is still processing
RestartNext ==
    \/ \E sub \in RestartSubmissions : SubmitOrder(sub[1], sub[2])
    \/ Start
    \/ StopBegin
    \/ StopReturn
    \/ \E w \in Threads : WorkerCheck(w)
    \/ \E w \in Threads : WorkerGet(w)
    \/ \E w \in Threads : ProcessOrder(w)

RestartSpec == Init /\ [][RestartNext]_vars

\* the in-flight set: stop() and start() around the workers, with cancellations
InFlightNext ==
    \/ \E sub \in RestartSubmissions : SubmitOrder(sub[1], sub[2])
    \/ \E order_id \in CancelIds, accepted \in BOOLEAN : CancelOrder(order_id, accepted)
    \/ Start
    \/ StopBegin
    \/ StopReturn
    \/ \E w \in Threads : WorkerCheck(w)
    \/ \E w \in Threads : WorkerGet(w)
    \/ \E w \in Threads : ProcessOrder(w)

InFlightSpec == Init /\ [][InFlightNext]_vars

\* a backtest run: candles, strategy callbacks, the event loop, equity samples
EngineNext ==
    \/ Run
    \/ \E candles \in Candles : GenerateMarketEvents(candles)
    \/ HandleMarketEvent
    \/ HandleSignalEvent
    \/ HandleOrderEvent
    \/ HandleFillEvent
    \/ ProcessEventsReturn
    \/ \E calls \in CallSeqs : RunStrategyCallbacks(calls)
    \/ UpdateEquityCurve_Engine

\* BacktestEngine(initial_capital) before run
EngineRunInit ==
    /\ EnginePortfolioInit /\ OrderManagerInit /\ EngineInit /\ CacheInit /\ SignalIdle
    /\ ServicesInit

EngineSpec == EngineRunInit /\ [][EngineNext]_vars

\* the events found on the queue by a call of process_events: market events,
\* signals and orders of both kinds, and a fill
QueuedEvents ==
    {MarketEvent(1, "BTC_KRW", 10 * EngineUnit),
     SignalEvent(1, "BTC_KRW", "buy"),
     SignalEvent(1, "BTC_KRW", "sell"),
     SignalEvent(1, "ETH_KRW", "buy"),
     OrderEvent(1, "BTC_KRW", "market", "buy", EngineUnit, NoPrice),
     OrderEvent(1, "BTC_KRW", "limit", "buy", EngineUnit, 5 * EngineUnit),
     FillEvent(1, "BTC_KRW", "buy", EngineUnit, 10 * EngineUnit, 25)}

\* process_events called on an engine that has the candle of BTC_KRW and a
\* finite number of events on its queue
ProcessEventsInit ==
    /\ EnginePortfolioInit /\ OrderManagerInit /\ CacheInit /\ SignalIdle /\ ServicesInit
    /\ events \in UNION {[1..k -> QueuedEvents] : k \in 0..MaxQueued}
    /\ current_time = 1
    /\ current_data = [s \in {"BTC_KRW"} |-> 10 * EngineUnit]
    /\ engine_pc = "process_strategy"
    /\ processed = <<>>

\* the loop of process_events
ProcessEventsNext ==
    \/ HandleMarketEvent
    \/ HandleSignalEvent
    \/ HandleOrderEvent
    \/ HandleFillEvent
    \/ ProcessEventsReturn

\* process_events is one sequential loop on the caller's thread: it takes the
\* events without blocking (events.get(False)) and runs each handler to its
\* end, so the loop keeps taking steps for as long as one is enabled
ProcessEventsSpec ==
    ProcessEventsInit /\ [][ProcessEventsNext]_vars /\ WF_vars(ProcessEventsNext)

\* get_or_compute called from several threads
CacheNext ==
    \/ \E t \in Callers, candles \in CacheCandles, compute \in CacheValues :
          GetOrCompute(t, candles, compute)
    \/ \E t \in Callers : Acquire(t)
    \/ \E t \in Callers : CacheHit(t)
    \/ \E t \in Callers : CacheMiss(t)
    \/ \E t \in Callers : Compute(t, cache_call[t].compute)
    \/ \E t \in Callers : ComputeRaises(t)

CacheSpec == Init /\ [][CacheNext]_vars

\* one evaluation of the signal rules on every input
SignalNext ==
    \/ GenerateFlat
    \/ GenerateHeld

\* generate called with each of the inputs
SignalRunInit ==
    /\ PortfolioInit /\ OrderManagerInit /\ EngineInit /\ CacheInit /\ SignalInit
    /\ ServicesInit

SignalSpec == SignalRunInit /\ [][SignalNext]_vars

\* assess called once with each of the arguments
RiskNext == risk_calls = <<>> /\ \E a \in RiskInputs : AssessCall(a)

RiskSpec == Init /\ [][RiskNext]_vars

\* evaluate called on candle sequences of every length, the repository
\* working or failing, the parameter cache expiring in between
StrategyNext ==
    \/ \E candles \in CandleCounts, i \in StrategyInputs, stores \in BOOLEAN :
           Evaluate(candles, i, stores)
    \/ Expire

StrategySpec == Init /\ [][StrategyNext]_vars

\* the callers of the parameter store: they read, build, change and store
\* StrategyParameters while the engine evaluates
ParameterNext ==
    \/ GetParameters
    \/ \E a \in Assignments : NewParameters(a[1], a[2])
    \/ \E ref \in 1..MaxObjects, a \in Assignments : SetField(ref, a[1], a[2])
    \/ \E ref \in 1..MaxObjects : UpdateParameters(ref)
    \/ Expire
    \/ \E i \in StrategyInputs : Evaluate(61, i, TRUE)

ParameterSpec == Init /\ [][ParameterNext]_vars

\* _create_trade_pairs called once with each of the trade lists
PairsNext == pair_calls = <<>> /\ \E trade_list \in TradeLists : CreateTradePairsCall(trade_list)

PairsSpec == Init /\ [][PairsNext]_vars

\* candles appended to a series one by one and in batches
SeriesNext ==
    \/ \E candle \in CandleKinds : AppendCandle(candle)
    \/ \E candles \in UNION {[1..n -> CandleKinds] : n \in 0..2} : ExtendCandles(candles)

SeriesSpec == Init /\ [][SeriesNext]_vars

----------------------------------------------------------------------------
(* Properties of the Portfolio ledger *)

\* a step of update_fill: it appends exactly one trade
FillStep == Len(trades') = Len(trades) + 1

\* a step of update_equity_curve: it appends one equity point
SampleStep == Len(equity_curve') = Len(equity_curve) + 1

\* the position a fill finds for its symbol (a fresh one when there is none)
PositionBefore(s) == IF s \in DOMAIN positions THEN positions[s] ELSE NewPosition

\* sum over the positions of quantity x market_price
MarkValue ==
    SumOver([s \in DOMAIN positions |->
                positions[s].quantity * positions[s].market_price], DOMAIN positions)

\* sum over the positions of realized_pnl
RealizedTotal ==
    SumOver([s \in DOMAIN positions |-> positions[s].realized_pnl], DOMAIN positions)

\* sum over the trades of the signed notional: + quantity x price of a sell,
\* - quantity x price of a buy
NetNotional ==
    SumOver([i \in DOMAIN trades |->
                IF trades[i].side = "sell" THEN trades[i].quantity * trades[i].price
                ELSE -(trades[i].quantity * trades[i].price)], DOMAIN trades)

\* C1 as stated: at every equity sample, cash + sum(quantity x market_price)
\* = initial_capital + sum(realized PnL) - sum(commission), exactly.
C1_LedgerIdentityOriginal ==
    [][SampleStep =>
         cash + MarkValue = Dec(InitialCapital) + RealizedTotal - total_commission]_vars

\* C1 (amended): at every equity sample the sampled equity is
\* cash + sum(quantity x market_price), and it equals initial_capital
\* + the signed notional of all fills (sells +, buys -) - sum(commission)
\* + sum(quantity x market_price), exactly.
C1_LedgerIdentity ==
    [][SampleStep =>
         /\ equity_curve'[Len(equity_curve')] = cash + MarkValue
         /\ cash + MarkValue =
                Dec(InitialCapital) + NetNotional - total_commission + MarkValue]_vars

\* C1 witness: an equity sample taken after commission-bearing fills, with a
\* position open at a mark price that differs from its average price.
C1_Witness ==
    /\ Len(equity_curve) >= 1
    /\ Len(trades) >= 1
    /\ total_commission > 0
    /\ equity_curve[Len(equity_curve)] = cash + MarkValue
    /\ \E s \in DOMAIN positions :
          /\ positions[s].quantity # 0
          /\ positions[s].market_price # 0
          /\ positions[s].market_price # positions[s].average_price

\* what a fill opposite to an open position does to that position
C9_CloseStep ==
    FillStep =>
        LET t == trades'[Len(trades')]
            old == PositionBefore(t.symbol)
            new == positions'[t.symbol]
            closed == Min(t.quantity, Abs(old.quantity))
            rest == t.quantity - closed
        IN  /\ (old.quantity > 0 /\ t.side = "sell") =>
                  /\ new.realized_pnl = old.realized_pnl
                        + (t.price - old.average_price) * closed - t.commission
                  /\ new.quantity = (old.quantity - closed) - rest
                  /\ rest > 0 => new.average_price = t.price
            /\ (old.quantity < 0 /\ t.side = "buy") =>
                  /\ new.realized_pnl = old.realized_pnl
                        + (old.average_price - t.price) * closed - t.commission
                  /\ new.quantity = (old.quantity + closed) + rest
                  /\ rest > 0 => new.average_price = t.price

\* the trades of the flip scenario on symbol s: buy 1 @ 100, sell 2 @ 110,
\* both without commission
FlipTrades(s) ==
    << [symbol |-> s, side |-> "buy", quantity |-> 1, price |-> Dec(100), commission |-> 0],
       [symbol |-> s, side |-> "sell", quantity |-> 2, price |-> Dec(110), commission |-> 0] >>

\* C9: a fill opposite to an open position closes min(fill quantity,
\* |position quantity|) units, adds (fillPrice - avgPrice) x closedQty -
\* commission to realized PnL when closing a long ((avgShortPrice - fillPrice)
\* x coveredQty - commission when covering a short), and the remainder opens
\* the opposite position at the fill price; flat, buy 1 @ 100, sell 2 @ 110
\* without commission ends short 1 @ 110 with realized PnL +10.
C9_CloseAndFlip ==
    /\ [][C9_CloseStep]_vars
    /\ [](\A s \in Symbols :
            trades = FlipTrades(s) =>
                /\ positions[s].quantity = -1
                /\ positions[s].average_price = Dec(110)
                /\ positions[s].realized_pnl = Dec(10))

\* C9 witness: the flip scenario has been played on some symbol.
C9_Witness ==
    \E s \in Symbols : trades = FlipTrades(s) /\ positions[s].quantity = -1

\* C10: a buy into a flat or long position, and a sell into a flat or short
\* one, grows the position by the fill quantity, sets the average price to
\* (oldQty x oldAvg + newQty x fillPrice) / (oldQty + newQty) and leaves
\* realized PnL unchanged.
C10_ExtendWeightedAverage ==
    [][FillStep =>
         LET t == trades'[Len(trades')]
             old == PositionBefore(t.symbol)
             new == positions'[t.symbol]
             oldQty == Abs(old.quantity)
         IN  ((t.side = "buy" /\ old.quantity >= 0) \/ (t.side = "sell" /\ old.quantity <= 0)) =>
                 /\ Abs(new.quantity) = oldQty + t.quantity
                 /\ (t.side = "buy") = (new.quantity > 0)
                 /\ new.average_price =
                        RoundHalfEven(oldQty * old.average_price + t.quantity * t.price,
                                      oldQty + t.quantity)
                 /\ new.realized_pnl = old.realized_pnl]_vars

\* C10 witness: a position built by two fills at different prices, whose
\* average price is neither fill price.
C10_Witness ==
    \E s \in DOMAIN positions :
        /\ Len(trades) = 2
        /\ trades[1].symbol = s /\ trades[2].symbol = s
        /\ trades[1].side = trades[2].side
        /\ trades[1].price # trades[2].price
        /\ Abs(positions[s].quantity) = trades[1].quantity + trades[2].quantity
        /\ positions[s].average_price \notin {trades[1].price, trades[2].price}

\* C11: each fill changes cash by exactly -(quantity x price + commission) for
\* a buy and +(quantity x price - commission) for a sell, appends exactly one
\* trade record, adds the commission to total_commission, and leaves the
\* positions of every other symbol unchanged.
C11_FillFrame ==
    [][FillStep =>
         LET t == trades'[Len(trades')]
         IN  /\ t.side = "buy" => cash' = cash - (t.quantity * t.price + t.commission)
             /\ t.side = "sell" => cash' = cash + (t.quantity * t.price - t.commission)
             /\ SubSeq(trades', 1, Len(trades)) = trades
             /\ total_commission' = total_commission + t.commission
             /\ \A s \in DOMAIN positions :
                   s # t.symbol => s \in DOMAIN positions' /\ positions'[s] = positions[s]
             /\ DOMAIN positions' = DOMAIN positions \cup {t.symbol}
             /\ UNCHANGED <<equity_curve, drawdown_curve>>]_vars

\* C11 witness: a sell with a commission was applied to one symbol while
\* another symbol holds a position.
C11_Witness ==
    /\ Len(trades) = 2
    /\ trades[1].symbol # trades[2].symbol
    /\ trades[2].side = "sell"
    /\ trades[2].commission > 0
    /\ positions[trades[1].symbol].quantity # 0
    /\ cash = Dec(InitialCapital)
              + (IF trades[1].side = "sell" THEN 1 ELSE -1) * trades[1].quantity * trades[1].price
              - trades[1].commission
              + trades[2].quantity * trades[2].price - trades[2].commission


----------------------------------------------------------------------------
(* Properties of the OrderManager *)

\* the place of a queued order in the sequence of submit_order calls
SubmissionIndex(queued_order) == queued_order.request.client_order_id[2]

\* worker w takes an order from the queue in this step
DequeueStep(w) == worker_pc[w] = "get" /\ worker_pc'[w] = "process"

\* worker w runs _process_order in this step
ProcessStep(w) == worker_pc[w] = "process" /\ worker_pc'[w] = "loop"

\* the orders waiting in the queue
Waiting == {order_queue[i] : i \in DOMAIN order_queue}

\* the orders a worker holds
Held == UNION {worker_order[w] : w \in Threads}

\* C2: the worker always dequeues next an order of the highest priority among
\* those waiting, and among waiting orders of equal priority the one submitted
\* earliest.
C2_PriorityThenFifo ==
    [][\A w \in Threads :
         DequeueStep(w) =>
             \A o \in worker_order'[w], q \in Waiting :
                 /\ o.priority >= q.priority
                 /\ o.priority = q.priority => SubmissionIndex(o) <= SubmissionIndex(q)]_vars

\* C3: an order whose submission failed with a transient gateway error is
\* retried (it waits in the queue with 1..3 retries counted, or a worker holds
\* it) and, once abandoned, get_order_status reports it as FAILED.
C3_TransientRetriedThenFailed ==
    \A k \in 1..submitted :
        <<"gateway_error", ClientOrderId(k)>> \in oplog =>
            \/ \E q \in Waiting \cup Held :
                  /\ q.request.client_order_id = ClientOrderId(k)
                  /\ q.retry_count \in 1..max_retries
            \/ \E r \in GetOrderStatus(ClientOrderId(k)) : r.status = "failed"

\* the validation failures C4 lists, for a request against the venue's answer
C4_FailsValidation(request, v) ==
    \/ request.quantity <= 0
    \/ request.order_type = "limit" /\ ~(request.price > 0)
    \/ v.fault
    \/ /\ request.side = "buy"
       /\ \/ v.krw = NoPrice
          \/ request.order_type = "market" /\ v.ticker = NoPrice
          \/ request.order_type = "market" /\ v.krw < request.quantity * v.ticker
          \/ request.order_type = "limit" /\ v.krw < request.quantity * request.price
    \/ /\ request.side = "sell"
       /\ (v.btc = NoPrice \/ v.btc < request.quantity)

\* a processing step on an order that fails validation executes nothing,
\* registers nothing and puts nothing back on the queue; an order is passed to
\* execution only in a step that validated it
C4_DropStep ==
    \A w \in Threads :
        ProcessStep(w) =>
            \A q \in worker_order[w] :
                LET id == q.request.client_order_id
                IN  /\ C4_FailsValidation(q.request, venue) =>
                          /\ <<"execute", id>> \notin oplog'
                          /\ <<"validation_failed", id>> \in oplog'
                          /\ order_queue' = order_queue
                          /\ pending_orders' = pending_orders
                          /\ active_orders' = active_orders
                    /\ <<"execute", id>> \in oplog' => ~C4_FailsValidation(q.request, venue)

\* an order dropped by validation is gone for good
C4_DroppedForGood ==
    \A k \in 1..submitted :
        <<"validation_failed", ClientOrderId(k)>> \in oplog =>
            /\ <<"execute", ClientOrderId(k)>> \notin oplog
            /\ \A q \in Waiting \cup Held : q.request.client_order_id # ClientOrderId(k)
            /\ GetOrderStatus(ClientOrderId(k)) = {}

\* C4: an order that fails pre-trade validation (quantity <= 0, limit order
\* without a positive price, insufficient KRW for a buy, insufficient held
\* quantity for a sell, or an error while querying the venue) is dropped: never
\* executed, never re-enqueued, never retried; validation precedes execution.
C4_ValidationFailureDrops ==
    /\ [][C4_DropStep]_vars
    /\ []C4_DroppedForGood

\* C4 witness: one order was dropped because the venue did not cover it while
\* another, valid one was executed, and nothing is left to process.
C4_Witness ==
    /\ order_queue = <<>>
    /\ Held = {}
    /\ \E k, j \in 1..submitted :
          /\ <<"validation_failed", ClientOrderId(k)>> \in oplog
          /\ <<"gateway_error", ClientOrderId(k)>> \notin oplog
          /\ <<"executed", ClientOrderId(j)>> \in oplog
    /\ \E k \in 1..submitted : <<"gateway_error", ClientOrderId(k)>> \in oplog

\* a step of cancel_order
CancelStep == last_cancel'.n = last_cancel.n + 1

\* C5: cancel_order returns True and marks the order CANCELLED only when its
\* status is PENDING or SUBMITTED; for an order in any other status it returns
\* False and leaves the order unchanged.
C5_CancelOnlyWhenCancellable ==
    [][CancelStep =>
         \A o \in ResolveOrderId(last_cancel'.order_id) :
             /\ last_cancel'.returned =>
                    /\ pending_orders[o].status \in {"pending", "submitted"}
                    /\ pending_orders'[o].status = "cancelled"
             /\ pending_orders[o].status \notin {"pending", "submitted"} =>
                    /\ ~last_cancel'.returned
                    /\ pending_orders'[o] = pending_orders[o]]_vars

\* the status changes of the order lifecycle
LifecycleEdges ==
    {<<"pending", "submitted">>}
    \cup ({"submitted", "partially_filled"}
            \X {"partially_filled", "filled", "cancelled", "rejected", "failed"})

\* C6: every status change follows PENDING -> SUBMITTED -> (PARTIALLY_FILLED)*
\* -> FILLED | CANCELLED | REJECTED | FAILED: an order is first recorded as
\* PENDING or SUBMITTED, each later change of its status is an edge of the
\* lifecycle (so none leaves a terminal status), and no order record is lost.
C6_LifecycleOnly ==
    [][/\ DOMAIN pending_orders \subseteq DOMAIN pending_orders'
       /\ \A o \in DOMAIN pending_orders' :
             IF o \in DOMAIN pending_orders
             THEN \/ pending_orders'[o].status = pending_orders[o].status
                  \/ <<pending_orders[o].status, pending_orders'[o].status>> \in LifecycleEdges
             ELSE pending_orders'[o].status \in {"pending", "submitted"}]_vars

\* C6 witness: cancel_order has been accepted twice, one order is CANCELLED and
\* another one, executed by the worker, is SUBMITTED.
C6_Witness ==
    /\ last_cancel.n = 2
    /\ last_cancel.returned
    /\ \E o1, o2 \in DOMAIN pending_orders :
          /\ pending_orders[o1].status = "cancelled"
          /\ pending_orders[o2].status = "submitted"

\* C7: every order status transition, the one to CANCELLED made by
\* cancel_order included, invokes each registered order-update observer,
\* whichever observers raise.
C7_EveryTransitionNotifies ==
    [][\A o \in DOMAIN pending_orders' :
         (o \notin DOMAIN pending_orders
             \/ pending_orders'[o].status # pending_orders[o].status) =>
             \A ob \in 1..order_update_callbacks :
                 <<ob, o, pending_orders'[o].status>> \in notified']_vars

\* C8: at every moment at most max_concurrent_orders orders are in flight, and
\* a worker dequeues an order only when fewer than that are in flight.
C8_ConcurrencyCap ==
    /\ [](Cardinality(active_orders) <= MaxConcurrentOrders)
    /\ [][\A w \in Threads :
            DequeueStep(w) => Cardinality(active_orders) < MaxConcurrentOrders]_vars

----------------------------------------------------------------------------
(* Properties of the BacktestEngine *)

\* the precedence of the event types at one timestamp
C12_Precedence(event_type) ==
    CASE event_type = "market" -> 1
      [] event_type = "signal" -> 2
      [] event_type = "order" -> 3
      [] event_type = "fill" -> 4

\* C12: the events are processed in non-decreasing timestamp order, and among
\* events of one timestamp every market event is processed before every signal
\* event, every signal before every order, every order before every fill,
\* whatever submit_signal and submit_order calls the strategy callbacks make.
C12_TimestampThenTypeOrder ==
    \A i \in 1..Len(processed) : \A j \in 1..Len(processed) :
        i < j =>
            /\ processed[i].timestamp <= processed[j].timestamp
            /\ processed[i].timestamp = processed[j].timestamp =>
                   C12_Precedence(processed[i].event_type)
                       <= C12_Precedence(processed[j].event_type)

\* a step of process_events that handles an event of the given type
HandleStep(event_type) ==
    /\ Processing(event_type)
    /\ Len(processed') = Len(processed) + 1

\* the events a handling step has put on the queue
PutBy(before, after) == SubSeq(after, Len(before), Len(after))

\* C13: the execution handler prices an order at mark * (1 + slippage) for a
\* buy and mark * (1 - slippage) for a sell; a limit order gets no fill when
\* that price is above its limit (buy) or below its limit (sell) and is
\* otherwise filled at its limit price; an order gets at most one fill, whose
\* commission is quantity * fill price * commission rate.
C13_ExecutionPricing ==
    [][HandleStep("order") /\ Head(events).symbol \in DOMAIN current_data =>
         LET order == Head(events)
             mark == current_data[order.symbol]
             slipped == IF order.side = "buy"
                        THEN mark + RoundHalfEven(mark, SlippageDivisor)
                        ELSE mark - RoundHalfEven(mark, SlippageDivisor)
             missed == \/ order.side = "buy" /\ slipped > order.price
                       \/ order.side = "sell" /\ slipped < order.price
             fills == PutBy(events, events')
         IN  /\ Len(fills) <= 1
             /\ \A i \in 1..Len(fills) :
                   /\ fills[i].event_type = "fill"
                   /\ fills[i].quantity = order.quantity
                   /\ fills[i].commission =
                          RoundHalfEven(order.quantity * fills[i].price, CommissionDivisor)
             /\ IF order.order_type = "limit"
                THEN IF missed THEN fills = <<>>
                     ELSE Len(fills) = 1 /\ fills[1].price = order.price
                ELSE Len(fills) = 1 /\ fills[1].price = slipped]_vars

\* C14: a BUY signal becomes an order sized by the buying power, so that
\* applying the fill of that order does not make cash negative; a SELL signal
\* becomes an order for exactly the long quantity held, and no order when no
\* long quantity is held.
C14_SignalSizing ==
    [][HandleStep("signal") /\ Head(events).symbol \in DOMAIN current_data =>
         LET signal == Head(events)
             mark == current_data[signal.symbol]
             held == IF signal.symbol \in DOMAIN positions
                     THEN positions[signal.symbol].quantity ELSE 0
             orders == PutBy(events, events')
         IN  /\ Len(orders) <= 1
             /\ \A i \in 1..Len(orders) :
                   /\ orders[i].event_type = "order"
                   /\ orders[i].symbol = signal.symbol
                   /\ orders[i].side = signal.side
             /\ signal.side = "buy" /\ cash >= 0 =>
                   \A i \in 1..Len(orders) :
                       LET fills == execute_order(orders[i], mark)
                       IN  \A k \in 1..Len(fills) :
                               CashAfterFill(cash, "buy", fills[k].quantity, fills[k].price,
                                             fills[k].commission) >= 0
             /\ signal.side = "sell" =>
                   IF held > 0 THEN Len(orders) = 1 /\ orders[1].quantity = held
                   ELSE orders = <<>>]_vars

\* the ledger does not reconcile: the ledger identity cash + sum(quantity x
\* market_price) = initial_capital + sum(realized PnL) - sum(commission) fails,
\* and the equity to sample is not cash + sum(quantity x latest close) either
C15_Mismatch ==
    /\ cash + MarkValue # EngineCapital * EngineUnit + RealizedTotal - total_commission
    /\ TotalEquity(cash, positions) #
           cash + SumOver([s \in DOMAIN positions |->
                              positions[s].quantity * current_data[s]], DOMAIN positions)

\* C15: when the equity reconciliation does not hold at an equity sample, the
\* run aborts with an error instead of going on to completion.
C15_MismatchAborts ==
    [][engine_pc = "sample" /\ SampleStep /\ C15_Mismatch => engine_pc' = "raised"]_vars

\* C16: run appends exactly one equity point and one drawdown point per
\* processed timestamp, in the order of the timestamps; each drawdown value is
\* (equity - running peak) / running peak x 100, is never positive, and is 0
\* when the equity is at its running peak.
C16_OneSamplePerTimestamp ==
    [][engine_pc = "sample" /\ SampleStep =>
         /\ Len(equity_curve') = current_time
         /\ Len(drawdown_curve') = current_time
         /\ LET total_equity == equity_curve'[Len(equity_curve')]
                peak == SeqMax(equity_curve')
                drawdown == drawdown_curve'[Len(drawdown_curve')]
            IN  /\ drawdown = Drawdown(total_equity, peak)
                /\ drawdown <= 0
                /\ total_equity = peak => drawdown = 0]_vars

----------------------------------------------------------------------------
(* Properties of the IndicatorCache *)

\* C17: whatever the interleaving of get_or_compute calls with one key, while
\* the key stays cached the computation has been invoked exactly once for it
\* and every call has returned one and the same value, the stored one.
C17_ComputedOnceWhileCached ==
    \A k \in KeysOf(store) :
        /\ usage[k].invocations = 1
        /\ usage[k].values = {ValueOf(store, k)}

\* a cached key that was computed once and hit since, while one thread holds
\* the lock for it and another waits with the same key
C17_Witness ==
    \E k \in KeysOf(store) : \E t1 \in Callers : \E t2 \in Callers :
        /\ usage[k].invocations = 1
        /\ usage[k].hits >= 1
        /\ t1 # t2
        /\ lock = t1 /\ cache_key[t1] = k
        /\ cache_pc[t2] = "waiting" /\ cache_key[t2] = k

\* C18: after every call the cache holds at most max_size entries; a miss that
\* pushes it over the bound evicts the least recently used key, a hit and an
\* insert both counting as a use.
C18_BoundedLru ==
    [][/\ Len(store') <= max_size
       /\ \A e \in KeysOf(store) \ KeysOf(store') :
             /\ Len(store) = max_size
             /\ KeysOf(store') \ KeysOf(store) # {}
             /\ \A k \in KeysOf(store) : usage[e].last_used <= usage[k].last_used]_vars

\* a full cache after an eviction: its oldest entry has been hit, and the
\* evicted key was last used before that entry was
C18_Witness ==
    /\ Len(store) = max_size
    /\ usage[store[1].key].hits >= 1
    /\ \E k \in CacheKeys \ KeysOf(store) :
          /\ usage[k].last_used > 0
          /\ usage[k].last_used < usage[store[1].key].last_used

----------------------------------------------------------------------------
(* Properties of the SignalGenerator *)

\* the elements of a sequence
Range(seq) == {seq[k] : k \in 1..Len(seq)}

\* C19: without an open position the decision is BUY exactly when the short
\* EMA crosses above the long EMA at the newest candle (previous short <=
\* previous long, current short > current long), the RSI lies in
\* [rsi_buy_min, rsi_buy_max] and the volume ratio is at least
\* volume_ratio_threshold, and HOLD otherwise; a BUY has a strength in (0, 1]
\* and names the EMA golden cross among its reasons.
C19_BuyRule ==
    decision # NoDecision /\ ~signal_input.has_position =>
        LET i == signal_input
            crossed == /\ i.prev_short # NoEma /\ i.prev_long # NoEma
                       /\ i.prev_short <= i.prev_long
                       /\ i.ema_short > i.ema_long
            in_band == rsi_buy_min <= i.rsi /\ i.rsi <= rsi_buy_max
            enough_volume == i.volume_ratio >= i.volume_ratio_threshold
        IN  IF crossed /\ in_band /\ enough_volume
            THEN /\ decision.signal_type = "BUY"
                 /\ decision.strength > 0
                 /\ decision.strength <= StrengthUnit
                 /\ "EMA golden cross" \in Range(decision.reasons)
            ELSE decision.signal_type = "HOLD"

\* the exit triggers an input fires
C20_Fired(i) ==
    {r \in {"EMA death cross", "target profit reached", "stop loss hit",
            "ATR trailing stop", "RSI exit signal"} :
        \/ /\ r = "EMA death cross"
           /\ i.prev_short # NoEma /\ i.prev_long # NoEma
           /\ i.prev_short >= i.prev_long
           /\ i.ema_short < i.ema_long
        \/ r = "target profit reached"
              /\ i.price * 100 >= i.position_avg * (100 + target_profit_pct)
        \/ r = "stop loss hit"
              /\ i.price * 100 <= i.position_avg * (100 - stop_loss_pct)
        \/ r = "ATR trailing stop"
              /\ i.price <= i.recent_high - i.atr * trailing_atr_multiplier
        \/ r = "RSI exit signal"
              /\ (i.rsi <= rsi_sell_threshold \/ i.rsi >= rsi_overbought)}

\* C20: with an open position the decision is HOLD when none of the five exit
\* triggers fires (EMA death cross, price >= target, price <= stop, price <=
\* recent high - ATR x trailing multiplier, RSI <= sell threshold or >=
\* overbought); otherwise it is SELL with strength = fired triggers / 5 and
\* reasons holding exactly one entry per fired trigger.
C20_SellRule ==
    decision # NoDecision /\ signal_input.has_position =>
        LET fired == C20_Fired(signal_input)
        IN  IF fired = {}
            THEN decision.signal_type = "HOLD"
            ELSE /\ decision.signal_type = "SELL"
                 /\ decision.strength * 5 = Cardinality(fired) * StrengthUnit
                 /\ Len(decision.reasons) = Cardinality(fired)
                 /\ Range(decision.reasons) = fired

\* a SELL decided on two triggers at once
C20_Witness ==
    /\ signal_input.has_position
    /\ decision.signal_type = "SELL"
    /\ Len(decision.reasons) = 2
    /\ decision.strength * 5 = 2 * StrengthUnit

----------------------------------------------------------------------------
(* Properties of the RiskManager *)

\* the levels of an assessment are all null
NullLevels(r) ==
    /\ r.stop_loss = None
    /\ r.take_profit = None
    /\ r.trailing_stop = None
    /\ r.partial_take_profit = None

\* the entry is refused by the limits: the portfolio is full or crowded
AtLimits(a) ==
    \/ a.open_positions >= a.params.max_concurrent_positions
    \/ a.open_positions * 100 >= a.params.correlation_threshold * a.params.max_concurrent_positions

\* C22: for a BUY, assess returns quantity 0 and null stop levels whenever the
\* open positions have reached max_concurrent_positions or the crowding score
\* open / max_concurrent_positions has reached correlation_threshold.
C22_RefusedAtLimits ==
    \A n \in DOMAIN risk_calls :
        LET a == risk_calls[n].args
            r == risk_calls[n].assessment
        IN  (a.signal_type = "BUY" /\ AtLimits(a)) => (r.quantity = 0 /\ NullLevels(r))

\* a BUY with four of five positions open, at the crowding threshold 0.8 and
\* below the position limit, has been refused
C22_Witness ==
    \E n \in DOMAIN risk_calls :
        LET a == risk_calls[n].args
        IN  /\ a.signal_type = "BUY"
            /\ a.params = DefaultParameters
            /\ a.open_positions = 4
            /\ risk_calls[n].assessment = Refused

\* C23: the quantity of an admitted BUY is
\* min(equity * capital_allocation_per_position, equity * max_risk_per_trade,
\* kelly_amount) / max(price * stop_loss_pct, ATR * atr_multiplier) with
\* kelly_amount = equity * max(0, win_rate - (1 - win_rate) / reward_risk),
\* and 0 when the Kelly fraction is not positive.
C23_KellySizing ==
    \A n \in DOMAIN risk_calls :
        LET a == risk_calls[n].args
            r == risk_calls[n].assessment
            kelly_amount == a.equity * Max(KellyFraction(a.params), 0)
            allocation == Min(Min(a.equity * a.params.capital_allocation_per_position,
                                  a.equity * a.params.max_risk_per_trade), kelly_amount)
        IN  (a.signal_type = "BUY" /\ ~AtLimits(a)) =>
                /\ r.quantity = RoundHalfEven(allocation * RiskUnit,
                                              UnitRisk(a.params, a.price, a.atr))
                /\ KellyFraction(a.params) <= 0 => r.quantity = 0

\* C24: for a SELL of a held symbol the quantity is the whole held quantity
\* and the risk amount is held quantity * max(0, avg_price - stop_loss).
C24_ExitRisk ==
    \A n \in DOMAIN risk_calls :
        LET a == risk_calls[n].args
            r == risk_calls[n].assessment
        IN  (a.signal_type = "SELL" /\ a.position # None) =>
                /\ r.quantity = a.position[1].quantity * RiskUnit
                /\ r.risk_amount =
                       a.position[1].quantity
                           * Max(a.position[1].avg_price * RiskUnit - r.stop_loss[1], 0)

\* C25: for an exit the stop-loss, take-profit and trailing-stop levels are
\* computed from the position's average price and none of them depends on the
\* current price; for a new entry they are all computed from the current price.
C25_LevelAnchors ==
    \A n \in DOMAIN risk_calls :
        LET a == risk_calls[n].args
            r == risk_calls[n].assessment
        IN  /\ (a.signal_type = "SELL" /\ a.position # None) =>
                   \A b \in RiskInputs :
                       b = [a EXCEPT !.price = b.price] =>
                           /\ Assess(b).stop_loss = r.stop_loss
                           /\ Assess(b).take_profit = r.take_profit
                           /\ Assess(b).trailing_stop = r.trailing_stop
            /\ (a.signal_type = "BUY" /\ ~AtLimits(a)) =>
                   /\ r.stop_loss =
                          Some(a.price * RiskUnit
                                   - Max(a.price * a.params.stop_loss_pct,
                                         a.atr * a.params.atr_multiplier * RiskUnit))
                   /\ r.take_profit =
                          Some(a.price * RiskUnit + a.price * a.params.target_profit_pct)
                   /\ a.atr > 0 =>
                          r.trailing_stop =
                              Some(a.price * RiskUnit
                                       - a.atr * a.params.trailing_atr_multiplier * RiskUnit)

----------------------------------------------------------------------------
(* Properties of the StrategyEngine and the StrategyParameterStore *)

\* the evaluate calls made so far
Evaluations == SelectSeq(strategy_log, LAMBDA e : e.op = "evaluate")

\* C21: generate never surfaces an exception: on every candle sequence, the
\* empty and the too short ones included, a failed indicator computation
\* yields HOLD with null rsi, atr and volume_ratio.
C21_GenerateNeverRaises ==
    \A n \in DOMAIN Evaluations :
        LET e == Evaluations[n]
        IN  /\ e.signal.signal_type # "RAISED"
            /\ IndicatorsFail(e.candles, e.params) =>
                   /\ e.signal.signal_type = "HOLD"
                   /\ e.signal.rsi = None
                   /\ e.signal.atr = None
                   /\ e.signal.volume_ratio = None

\* C26: a persistence failure while the signal is recorded is swallowed:
\* evaluate raises nothing and returns the decision and the assessment it
\* returns when the signal is stored.
C26_PersistenceFailureSwallowed ==
    \A n \in DOMAIN Evaluations :
        LET e == Evaluations[n]
            signal == Generate(e.candles, e.input, e.params)
        IN  (~e.stores /\ signal.signal_type \in {"BUY", "SELL"}) =>
                /\ e.outcome = "returned"
                /\ e.signal = signal
                /\ e.risk = Assess(AssessArgs(signal, e.input, e.params))

\* the signal types of the BUY and SELL decisions evaluate has returned
ReturnedSignals ==
    LET returned == SelectSeq(Evaluations, LAMBDA e : /\ e.outcome = "returned"
                                                      /\ e.signal.signal_type # "HOLD")
    IN  [k \in 1..Len(returned) |-> returned[k].signal.signal_type]

C28_OnlyValidParameters ==
    /\ Validate(param_objects[risk_parameters])
    /\ \A n \in DOMAIN strategy_log :
           strategy_log[n].op = "get_parameters" => Validate(strategy_log[n].params)

----------------------------------------------------------------------------
(* Properties of the trade pairing *)

\* a sell of `remaining` units consumes the buy lots from the oldest on: one
\* pair per lot touched, a lot that is not used up stays at the head
RECURSIVE FifoConsume(_, _, _)
FifoConsume(lots, remaining, sell) ==
    IF remaining = 0 \/ lots = <<>> THEN [lots |-> lots, pairs |-> <<>>]
    ELSE LET lot == Head(lots)
             quantity == Min(remaining, lot.quantity)
             left == IF lot.quantity > quantity
                     THEN <<[lot EXCEPT !.quantity = @ - quantity]>> \o Tail(lots)
                     ELSE Tail(lots)
             further == FifoConsume(left, remaining - quantity, sell)
         IN  [lots |-> further.lots,
              pairs |-> <<[symbol |-> sell.symbol, buy_price |-> lot.price,
                           sell_price |-> sell.price, quantity |-> quantity]>>
                        \o further.pairs]

\* the pairs of the first-in-first-out matching, per symbol, of the trades
\* taken in the given order
RECURSIVE FifoPairs(_, _, _)
FifoPairs(trade_list, order, lots) ==
    IF order = <<>> THEN <<>>
    ELSE LET trade == trade_list[Head(order)]
         IN  IF trade.side = "buy"
             THEN FifoPairs(trade_list, Tail(order),
                            [lots EXCEPT ![trade.symbol] = Append(@, trade)])
             ELSE LET matched == FifoConsume(lots[trade.symbol], trade.quantity, trade)
                  IN  matched.pairs
                          \o FifoPairs(trade_list, Tail(order),
                                       [lots EXCEPT ![trade.symbol] = matched.lots])

\* C29: trades are paired first-in-first-out per symbol: every sell consumes
\* the oldest unmatched buy lots until its whole quantity is matched, with one
\* pair per lot touched and partial lots staying at the head; buy 1 @ 100,
\* buy 1 @ 120, sell 2 @ 130 without commission gives two pairs of PnL +30, +10.
C29_FifoPairing ==
    \A n \in DOMAIN pair_calls :
        LET trade_list == pair_calls[n].args
            pairs == pair_calls[n].result.pairs
            fifo == FifoPairs(trade_list, SortedByTimestamp(trade_list, DOMAIN trade_list),
                              [s \in Symbols |-> <<>>])
        IN  /\ Len(pairs) = Len(fifo)
            /\ \A k \in DOMAIN pairs :
                   /\ pairs[k].symbol = fifo[k].symbol
                   /\ pairs[k].buy_price = fifo[k].buy_price
                   /\ pairs[k].sell_price = fifo[k].sell_price
                   /\ pairs[k].quantity = fifo[k].quantity
            /\ (\A k \in DOMAIN trade_list : trade_list[k].commission = 0) =>
                   \A k \in DOMAIN pairs :
                       pairs[k].pnl = pairs[k].quantity
                                          * (pairs[k].sell_price - pairs[k].buy_price)

----------------------------------------------------------------------------
(* Properties of the CandleSeries *)

\* C30: after any append or extend the series holds candles of a single
\* symbol whose timestamps are strictly increasing: no timestamp twice.
C30_SortedDistinctTimestamps ==
    /\ \A k \in DOMAIN series : series[k].symbol = SeriesSymbol
    /\ \A k \in 1..(Len(series) - 1) : series[k].timestamp < series[k + 1].timestamp

----------------------------------------------------------------------------
(* Properties of the OrderManager: shutdown and the in-flight set *)

\* a worker takes an order from the queue
Dequeues == Len(order_queue') < Len(order_queue)

\* C31: once stop() has been called (and until start() is called again) no
\* worker takes a new order from the queue, whatever the interleaving of
\* stop() with the worker loop and with submit_order; stop() returns only when
\* the worker has left its loop or the join has timed out on it.
C31_NoDequeueAfterStop ==
    [][/\ ~running => ~Dequeues
       /\ (stopping /\ ~stopping') => worker_pc[worker_thread] \in {"exited", "process"}]_vars


\* the requests handed to submit_order so far that are still queued or are
\* being processed by a worker
SubmittedRequests ==
    { order_queue[k].request : k \in DOMAIN order_queue }

\* C34: no OrderRequest with a quantity <= 0, and no limit order without a
\* price, is ever submitted to the manager (its construction would have
\* failed).
C34_OnlyValidRequestsSubmitted ==
    \A request \in SubmittedRequests :
        /\ request.quantity > 0
        /\ ~(request.order_type = "limit" /\ request.price = NoPrice)

\* no order leaves _active_orders or _pending_orders, and _order_history stays
\* empty
InFlightGrows ==
    /\ active_orders \subseteq active_orders'
    /\ DOMAIN pending_orders \subseteq DOMAIN pending_orders'
    /\ order_history' = <<>>

\* max_concurrent_orders orders have been accepted
AtLimit == Cardinality(active_orders) >= MaxConcurrentOrders

----------------------------------------------------------------------------
(* Properties of the IndicatorCache: what decides a hit *)

\* C36: a hit is decided by the key alone.  A call whose candles end at a
\* timestamp that is cached returns the stored value and does not invoke its
\* own compute, whatever the length of its candles and the candles before the
\* last, and whatever its compute would have returned on them.
C36_HitDecidedByKey ==
    [][\A t \in Callers :
          /\ cache_pc[t] = "locked" /\ cache_pc'[t] = "idle"
          /\ KeyOf(cache_call[t].candles) \in KeysOf(store)
          => /\ cache_return'[t] = [value |-> ValueOf(store, cache_key[t]), computed |-> FALSE]
             /\ usage'[cache_key[t]].invocations = usage[cache_key[t]].invocations]_vars

\* two calls with one key and different candles have returned: the first
\* computed and stored its value, the second returned that value although its
\* own compute gives another
C36_Witness ==
    \E t1 \in Callers : \E t2 \in Callers :
        /\ cache_pc[t1] = "idle" /\ cache_pc[t2] = "idle"
        /\ cache_key[t1] = cache_key[t2]
        /\ cache_call[t1].candles # cache_call[t2].candles
        /\ Len(cache_call[t1].candles) # Len(cache_call[t2].candles)
        /\ cache_return[t1].computed
        /\ cache_return[t2] = [value |-> cache_return[t1].value, computed |-> FALSE]
        /\ cache_call[t2].compute # cache_return[t2].value

----------------------------------------------------------------------------
(* Properties of the RiskManager: signals that are not BUY *)

\* C37: assess treats every signal that is not BUY alike.  A HOLD is assessed
\* as the SELL with the same arguments is: on a held symbol the quantity is
\* the whole held quantity and the stop-loss, take-profit and partial
\* take-profit levels are set; the quantity is 0 only when nothing is held,
\* and then every level is null.
C37_HoldAssessedAsExit ==
    \A n \in DOMAIN risk_calls :
        LET a == risk_calls[n].args
            r == risk_calls[n].assessment
        IN  a.signal_type = "HOLD" =>
                /\ r = Assess([a EXCEPT !.signal_type = "SELL"])
                /\ a.position # None =>
                       /\ r.quantity = a.position[1].quantity * RiskUnit
                       /\ r.quantity > 0
                       /\ r.stop_loss # None /\ r.take_profit # None
                       /\ r.partial_take_profit # None
                /\ a.position = None => r = Refused

\* a HOLD on a held symbol has been assessed: the whole position with its levels
C37_Witness ==
    \E n \in DOMAIN risk_calls :
        /\ risk_calls[n].args.signal_type = "HOLD"
        /\ risk_calls[n].args.position # None
        /\ risk_calls[n].assessment.quantity = 2 * RiskUnit
        /\ risk_calls[n].assessment.stop_loss # None
        /\ risk_calls[n].assessment.trailing_stop # None

----------------------------------------------------------------------------
(* Properties of the BacktestEngine: the mark of a new position *)

\* the places of the fills and of the market events of a symbol among the
\* events processed so far
FillsOf(s) ==
    {i \in DOMAIN processed : processed[i].event_type = "fill" /\ processed[i].symbol = s}
MarketsOf(s) ==
    {i \in DOMAIN processed : processed[i].event_type = "market" /\ processed[i].symbol = s}
FirstFill(s) == CHOOSE i \in FillsOf(s) : \A j \in FillsOf(s) : i <= j
LastMarket(s) ==
    IF MarketsOf(s) = {} THEN 0 ELSE CHOOSE i \in MarketsOf(s) : \A j \in MarketsOf(s) : j <= i

\* the close of the last market event of a symbol since its position was
\* created, 0 when there has been none
MarkSinceCreated(s) ==
    IF LastMarket(s) < FirstFill(s) THEN 0 ELSE processed[LastMarket(s)].price

\* C38: a position created by a fill keeps market_price 0 until the next
\* market event of its symbol is processed.  At the equity sample of a
\* timestamp t a position created at t is therefore valued at 0, and a
\* position created before t whose symbol has a candle at t is valued at that
\* candle's close: the sample is cash + sum of quantity x that mark.
C38_NewPositionMarkedZero ==
    /\ \A s \in DOMAIN positions :
          /\ FillsOf(s) # {}
          /\ positions[s].market_price = MarkSinceCreated(s)
    /\ engine_pc = "sample" =>
          \A s \in DOMAIN positions :
              /\ processed[FirstFill(s)].timestamp = current_time
                     => positions[s].market_price = 0
              /\ (/\ processed[FirstFill(s)].timestamp < current_time
                  /\ \E i \in MarketsOf(s) : processed[i].timestamp = current_time)
                     => positions[s].market_price = current_data[s]
    /\ (engine_pc \in {"generate", "done", "raised"} /\ equity_curve # <<>>) =>
          equity_curve[Len(equity_curve)] =
              cash + SumOver([s \in DOMAIN positions |->
                                 positions[s].quantity * MarkSinceCreated(s)], DOMAIN positions)

\* one buy was filled at the first timestamp and nothing since: the first
\* sample valued the new position at 0 (it equals the cash), the second at
\* the close of the second candle
C38_Witness ==
    /\ Len(equity_curve) = 2 /\ Len(trades) = 1
    /\ "BTC_KRW" \in DOMAIN positions
    /\ positions["BTC_KRW"].quantity > 0
    /\ processed[FirstFill("BTC_KRW")].timestamp = 1
    /\ equity_curve[1] = cash
    /\ current_data["BTC_KRW"] > 0
    /\ equity_curve[2] = cash + positions["BTC_KRW"].quantity * current_data["BTC_KRW"]

----------------------------------------------------------------------------
(* Properties of the BacktestEngine: termination of process_events *)

\* process_events is running
InProcessEvents == engine_pc \in {"process_market", "process_strategy"}

\* the events a handler put on the queue at this step
Enqueued == SubSeq(events', Len(events), Len(events'))

\* C39: process_events terminates for every finite queue of events when the
\* event callbacks enqueue nothing: a signal puts at most one order on the
\* queue, an order at most one fill, market events and fills put nothing,
\* and the queue is empty when process_events returns.
C39_ProcessEventsTerminates ==
    /\ <>(~InProcessEvents /\ events = <<>>)
    /\ [][/\ (InProcessEvents /\ events # <<>>) =>
                /\ Len(Enqueued) <= 1
                /\ Tail(events) \o Enqueued = events'
                /\ Head(events).event_type \in {"market", "fill"} => Enqueued = <<>>
                /\ \A i \in DOMAIN Enqueued :
                      /\ Head(events).event_type = "signal" => Enqueued[i].event_type = "order"
                      /\ Head(events).event_type = "order" => Enqueued[i].event_type = "fill"
          /\ (InProcessEvents /\ ~InProcessEvents') => events' = <<>>]_vars

\* process_events has returned after a signal was turned into an order and
\* the order into a fill
C39_Witness ==
    /\ ~InProcessEvents /\ events = <<>>
    /\ \E i, j, k \in DOMAIN processed :
          /\ i < j /\ j < k
          /\ processed[i].event_type = "signal"
          /\ processed[j].event_type = "order" /\ processed[j].order_type = "market"
          /\ processed[k].event_type = "fill"
          /\ processed[j].quantity = processed[k].quantity
    /\ Len(processed) > MaxQueued

----------------------------------------------------------------------------
(* Properties of the Portfolio ledger: the net quantity *)

\* quantity bought minus quantity sold of a symbol, over all fills so far
NetBought(s) ==
    SumOver([i \in DOMAIN trades |->
                IF trades[i].symbol # s THEN 0
                ELSE IF trades[i].side = "buy" THEN trades[i].quantity
                ELSE -trades[i].quantity], DOMAIN trades)

\* C40: after any sequence of fills with non-negative quantities the signed
\* quantity of every position is the quantity bought minus the quantity sold
\* of its symbol, and a position whose quantity is 0 has average price 0.
C40_NetQuantity ==
    \A s \in DOMAIN positions :
        /\ positions[s].quantity = NetBought(s)
        /\ positions[s].quantity = 0 => positions[s].average_price = 0

\* a long position was flipped to a short one and then covered: it is flat
\* again, at average price 0
C40_Witness ==
    \E s \in Symbols :
        /\ Len(trades) = 3
        /\ trades[1].symbol = s /\ trades[1].side = "buy" /\ trades[1].quantity = 1
        /\ trades[2].symbol = s /\ trades[2].side = "sell" /\ trades[2].quantity = 2
        /\ trades[3].symbol = s /\ trades[3].side = "buy" /\ trades[3].quantity = 1
        /\ positions[s].quantity = 0 /\ positions[s].average_price = 0

----------------------------------------------------------------------------
(* Properties of the OrderManager: position sync *)

\* the quantity the manager reports as held of a symbol
HeldQuantity(held, s) == IF s \in DOMAIN held THEN held[s].quantity ELSE 0

\* thread t returns from _sync_positions at this step after the last
\* account, the venue having answered every call of the sync
SyncCompletes(t) ==
    /\ sync_pc[t] \in InSync /\ sync_pc'[t] \notin InSync
    /\ sync_frame[t].index > Len(Currencies)
    /\ sync_frame[t].answered


\* C32: after each position sync the local positions mirror the venue: for
\* every currency but KRW the local quantity is the balance the venue reported
\* to the sync (0, that is not held, when the balance is 0), and every position
\* the sync wrote was notified exactly once to each registered observer.
C32_SyncMirrorsVenue ==
    [][\A t \in SyncThreads :
          SyncCompletes(t) =>
              /\ \A c \in Coins :
                    HeldQuantity(live_positions', SyncSymbol(c)) = sync_frame[t].accounts[c]
              /\ \A c \in Coins : \A o \in 1..position_update_callbacks :
                    NotifiedCount(sync_frame[t].notified, SyncSymbol(c), o) =
                        IF sync_frame[t].accounts[c] > 0 THEN 1 ELSE 0]_vars

\* thread t has tested 'symbol in self._positions' for the symbol of currency c
\* and has not yet written the position
OnPosition(t, c) ==
    /\ sync_pc[t] = "store"
    /\ Currencies[sync_frame[t].index] = c

\* C33: the position syncs are serialized per symbol: the sync that start()
\* runs on the caller's thread and the sync of the monitor thread are never
\* both between their read and their write of the position of one symbol.
C33_SyncsSerializedPerSymbol ==
    \A c \in Coins : ~(OnPosition("caller", c) /\ OnPosition("monitor", c))
====
